---- MODULE Spec2Model ----
(***************************************************************************)
(* Model of the offline-first sync backend: the categories and todos       *)
(* tables, the change-log query (getChangesSince), the last-write-wins     *)
(* resolver (resolveLWW), pull (pullChanges) and transactional push        *)
(* (pushChanges with processCategoryChanges / processTodoChanges), and the *)
(* direct single-record update and delete calls.                           *)
(***************************************************************************)
EXTENDS Integers, Sequences, FiniteSets, TLC

\* ------------------------------------------------------------------ bounds
\* Wall-clock and client timestamps range over 1..MaxTime.
MaxTime == 3
\* Entries (created + updated + deleted, both kinds) of one push request.
MaxBatch == 2
\* Requests (pushes, pulls, direct calls) made in one behaviour.
MaxRequests == 2

\* ----------------------------------------------------------------- domains
Users == {"u1", "u2"}
CatIds == {"c1"}
TodoIds == {"t1"}
Titles == {"a", "b"}
\* SQL NULL / JavaScript null for the optional text columns.
Null == "NULL"
Descriptions == {Null, "", "d"}
CategoryRefs == {Null} \cup CatIds
Times == 1..MaxTime
\* lastPulledAt of a first sync (JavaScript null).
NullTs == 0 - 1
\* The absence of a row, of a query result, of a processed entry.
NoRow == [none |-> TRUE]

\* The contents (title, description, is_completed, category_id) of the todos
\* the clients push.
TodoContents == {<<"a", "d", FALSE, Null>>, <<"b", "", TRUE, "c1">>}

\* The client whose chain of pulls is followed.
Puller == "u1"

\* ------------------------------------------------------- client payloads
\* A category record in the client schema (title, created_at, updated_at);
\* a record is not modified before it is created.
CategoryRecords ==
    {[id |-> id, title |-> title, created_at |-> t[1], updated_at |-> t[2]] :
        id \in CatIds, title \in Titles,
        t \in {u \in Times \X Times : u[1] <= u[2]}}

\* A todo record in the client schema.
TodoRecords ==
    {[id |-> id, title |-> c[1], description |-> c[2], is_completed |-> c[3],
      category_id |-> c[4], created_at |-> t[1], updated_at |-> t[2]] :
        id \in TodoIds, c \in TodoContents,
        t \in {u \in Times \X Times : u[1] <= u[2]}}

VARIABLES
    categories,       \* committed categories table: id -> row or NoRow
    todos,            \* committed todos table: id -> row or NoRow
    now,              \* the value Date.now() returned last
    pushPc,           \* position of the push request in pushChanges
    pushUser,         \* userId of the push request
    txCategories,     \* rows of categories written inside the open transaction
    txTodos,          \* rows of todos written inside the open transaction
    pushBase,         \* the tables without the writes of the push in progress
    conflicts,        \* the conflict ledger accumulated by the push
    processed,        \* the entries the push has processed, in order
    pushResult,       \* what the last push returned to the route
    statements,       \* BEGIN, COMMIT, ROLLBACK issued on the push's connection
                      \* and its release, in order
    pullPc,           \* position of the pull request in pullChanges
    lastPulledAt,     \* the checkpoint the client sends (NullTs at first)
    timestamp,        \* the response timestamp captured by the pull
    categoryChanges,  \* result of categoryService.getChangesSince, or NoRow
    todoChanges,      \* result of todoService.getChangesSince, or NoRow
    delivered,        \* per record: its committed version reached the client
    requests,         \* number of requests made so far
    call,             \* a function applied in isolation: its name and arguments
    result            \* what that application returned, or the answer of a
                      \* request its route rejected, or NoRow

vars == <<categories, todos, now, pushPc, pushUser, txCategories, txTodos,
          call, result, pushBase, conflicts, processed, pushResult, statements,
          pullPc, lastPulledAt,
          timestamp, categoryChanges, todoChanges, delivered,
          requests>>

fnVars == <<call, result>>
storeVars == <<categories, todos>>
pushVars == <<pushPc, pushUser, txCategories, txTodos, pushBase, conflicts,
              processed, pushResult, statements>>
pullVars == <<pullPc, lastPulledAt, timestamp, categoryChanges, todoChanges>>

\* ------------------------------------------------------------ stored rows
CategoryRows ==
    [id : CatIds, user_id : Users, name : Titles,
     created_timestamp : Times, modified_at : Times, is_deleted : BOOLEAN]

TodoRows ==
    [id : TodoIds, user_id : Users, category_id : CategoryRefs, name : Titles,
     details : Descriptions, done : BOOLEAN,
     created_timestamp : Times, modified_at : Times, is_deleted : BOOLEAN]

\* ------------------------------------------------- conflict resolver (LWW)
\* The human-readable justification, as the template and the numbers put in it.
ReasonOf(winner, localUpdatedAt, remoteUpdatedAt) ==
    IF winner = "local"
    THEN [text |-> "Local timestamp (%1) > remote (%2)",
          args |-> <<localUpdatedAt, remoteUpdatedAt>>]
    ELSE IF localUpdatedAt = remoteUpdatedAt
    THEN [text |-> "Timestamps equal (%1). Server wins by authority.",
          args |-> <<localUpdatedAt>>]
    ELSE [text |-> "Remote timestamp (%1) > local (%2)",
          args |-> <<remoteUpdatedAt, localUpdatedAt>>]

\* A resolver that lets the client win ties (mutant of LWWWinner).
LWWWinnerTieLocal(localUpdatedAt, remoteUpdatedAt) ==
    IF localUpdatedAt >= remoteUpdatedAt THEN "local" ELSE "remote"

\* Local wins if its timestamp is strictly greater; the server wins a tie.
LWWWinner(localUpdatedAt, remoteUpdatedAt) ==
    IF localUpdatedAt > remoteUpdatedAt THEN "local" ELSE "remote"

resolveLWW(collection, recordId, localUpdatedAt, remoteUpdatedAt) ==
    LET winner == LWWWinner(localUpdatedAt, remoteUpdatedAt)
    IN  [recordId |-> recordId,
         collection |-> collection,
         winner |-> winner,
         localUpdatedAt |-> localUpdatedAt,
         remoteUpdatedAt |-> remoteUpdatedAt,
         reason |-> ReasonOf(winner, localUpdatedAt, remoteUpdatedAt)]

\* --------------------------------------------------------- field translator
\* JavaScript's (x || null) on an optional string: null, undefined and the
\* empty string all give null.
OrNull(x) == IF x = Null \/ x = "" THEN Null ELSE x

\* An INSERT that stores the creation time as the modification time (mutant).
InsertCategoryCreatedAsModified(userId, record) ==
    [id |-> record.id, user_id |-> userId, name |-> record.title,
     created_timestamp |-> record.created_at, modified_at |-> record.created_at,
     is_deleted |-> FALSE]

\* INSERT INTO categories ..., client schema -> storage schema.
InsertCategory(userId, record) ==
    [id |-> record.id, user_id |-> userId, name |-> record.title,
     created_timestamp |-> record.created_at, modified_at |-> record.updated_at,
     is_deleted |-> FALSE]

\* An overwrite that leaves the soft-delete flag as it is (mutant).
OverwriteCategoryKeepFlag(row, record) ==
    [row EXCEPT !.name = record.title,
                !.created_timestamp = record.created_at,
                !.modified_at = record.updated_at]

\* The UPDATE of a 'created' category that wins against the stored row.
OverwriteCategory(row, record) ==
    [row EXCEPT !.name = record.title,
                !.created_timestamp = record.created_at,
                !.modified_at = record.updated_at,
                !.is_deleted = FALSE]

\* An 'updated' UPDATE that also clears the soft-delete flag (mutant).
UpdateCategoryRestoring(row, record) ==
    [row EXCEPT !.name = record.title, !.modified_at = record.updated_at,
                !.is_deleted = FALSE]

\* The UPDATE of an 'updated' category that wins against the stored row.
UpdateCategory(row, record) ==
    [row EXCEPT !.name = record.title, !.modified_at = record.updated_at]

\* The UPDATE of a 'deleted' category identifier that wins.
SoftDeleteCategory(row, t) ==
    [row EXCEPT !.is_deleted = TRUE, !.modified_at = t]

\* INSERT INTO todos ..., client schema -> storage schema.
InsertTodo(userId, record) ==
    [id |-> record.id, user_id |-> userId, name |-> record.title,
     details |-> OrNull(record.description),
     done |-> (record.is_completed \/ FALSE),
     category_id |-> OrNull(record.category_id),
     created_timestamp |-> record.created_at, modified_at |-> record.updated_at,
     is_deleted |-> FALSE]

\* The UPDATE of a 'created' todo that wins against the stored row.
OverwriteTodo(row, record) ==
    [row EXCEPT !.name = record.title,
                !.details = record.description,
                !.done = record.is_completed,
                !.category_id = record.category_id,
                !.created_timestamp = record.created_at,
                !.modified_at = record.updated_at,
                !.is_deleted = FALSE]

\* The UPDATE of an 'updated' todo that wins against the stored row.
UpdateTodo(row, record) ==
    [row EXCEPT !.name = record.title,
                !.details = record.description,
                !.done = record.is_completed,
                !.category_id = record.category_id,
                !.modified_at = record.updated_at]

\* A soft delete that keeps the stored modification time (mutant).
SoftDeleteTodoKeepTime(row, t) == [row EXCEPT !.is_deleted = TRUE]

\* The UPDATE of a 'deleted' todo identifier that wins.
SoftDeleteTodo(row, t) ==
    [row EXCEPT !.is_deleted = TRUE, !.modified_at = t]

\* Storage schema -> client schema, as pullChanges maps every record.
transformCategoryToLocal(cat) ==
    [id |-> cat.id, title |-> cat.name,
     created_at |-> cat.created_timestamp, updated_at |-> cat.modified_at]

transformTodoToLocal(todo) ==
    [id |-> todo.id, title |-> todo.name, description |-> todo.details,
     is_completed |-> todo.done, category_id |-> todo.category_id,
     created_at |-> todo.created_timestamp, updated_at |-> todo.modified_at]

\* ---------------------------------------------------------- change-log query
\* The rows of a table, as a set.
RowsOf(table) == {table[i] : i \in {j \in DOMAIN table : table[j] # NoRow}}

\* The orders in which ORDER BY created_timestamp may return a set of rows
\* (rows with equal keys come in any order).
OrderByCreated(S) ==
    {s \in [1..Cardinality(S) -> S] :
        /\ \A i, j \in 1..Cardinality(S) : i # j => s[i] # s[j]
        /\ \A i, j \in 1..Cardinality(S) :
              i < j => s[i].created_timestamp <= s[j].created_timestamp}

\* ORDER BY modified_at DESC (mutant).
OrderByModifiedDescending(S) ==
    {s \in [1..Cardinality(S) -> S] :
        /\ \A i, j \in 1..Cardinality(S) : i # j => s[i] # s[j]
        /\ \A i, j \in 1..Cardinality(S) :
              i < j => s[i].modified_at >= s[j].modified_at}

\* The orders in which ORDER BY modified_at may return a set of rows.
OrderByModified(S) ==
    {s \in [1..Cardinality(S) -> S] :
        /\ \A i, j \in 1..Cardinality(S) : i # j => s[i] # s[j]
        /\ \A i, j \in 1..Cardinality(S) :
              i < j => s[i].modified_at <= s[j].modified_at}

\* A first sync that also returns the soft-deleted rows (mutant).
BootstrapRowsWithDeleted(table, userId) ==
    {r \in RowsOf(table) : r.user_id = userId}

\* First sync: WHERE user_id = $1 AND is_deleted = FALSE.
BootstrapRows(table, userId) ==
    {r \in RowsOf(table) : r.user_id = userId /\ ~r.is_deleted}

\* A change-log query that also returns rows at the checkpoint (mutant).
ChangedRowsInclusive(table, userId, since) ==
    {r \in RowsOf(table) : r.user_id = userId /\ r.modified_at >= since}

\* WHERE user_id = $1 AND modified_at > $2.
ChangedRows(table, userId, since) ==
    {r \in RowsOf(table) : r.user_id = userId /\ r.modified_at > since}

\* A loop that tests the creation time before the deletion flag (mutant).
BucketCreatedFirst(row, since) ==
    IF row.created_timestamp > since THEN "created"
    ELSE IF row.is_deleted THEN "deleted"
    ELSE "updated"

\* if (row.is_deleted) ... else if (row.created_timestamp > since) ... else ...
Bucket(row, since) ==
    IF row.is_deleted THEN "deleted"
    ELSE IF row.created_timestamp > since THEN "created"
    ELSE "updated"

\* The loop over result.rows: each row is pushed to exactly one list.
RECURSIVE PartitionRows(_, _)
PartitionRows(rows, since) ==
    IF rows = <<>>
    THEN [created |-> <<>>, updated |-> <<>>, deleted |-> <<>>]
    ELSE LET row == Head(rows)
             rest == PartitionRows(Tail(rows), since)
             b == Bucket(row, since)
         IN  IF b = "deleted"
             THEN [rest EXCEPT !.deleted = <<row.id>> \o @]
             ELSE IF b = "created"
             THEN [rest EXCEPT !.created = <<row>> \o @]
             ELSE [rest EXCEPT !.updated = <<row>> \o @]

\* categoryService.getChangesSince / todoService.getChangesSince: the set of
\* results the query may give (one per admissible row order).
getChangesSince(table, userId, since) ==
    IF since = NullTs
    THEN {[created |-> rows, updated |-> <<>>, deleted |-> <<>>] :
            rows \in OrderByCreated(BootstrapRows(table, userId))}
    ELSE {PartitionRows(rows, since) :
            rows \in OrderByModified(ChangedRows(table, userId, since))}

\* f applied to every element of a sequence (Array.prototype.map).
MapCategories(rows) == [i \in 1..Len(rows) |-> transformCategoryToLocal(rows[i])]
MapTodos(rows) == [i \in 1..Len(rows) |-> transformTodoToLocal(rows[i])]

\* ------------------------------------------------------------------- state
EmptyCategories == [id \in CatIds |-> NoRow]
EmptyTodos == [id \in TodoIds |-> NoRow]

Init ==
    /\ categories = EmptyCategories
    /\ todos = EmptyTodos
    /\ now = 1
    /\ pushPc = "idle"
    /\ pushUser = Puller
    /\ txCategories = EmptyCategories
    /\ txTodos = EmptyTodos
    /\ pushBase = NoRow
    /\ conflicts = <<>>
    /\ processed = <<>>
    /\ pushResult = NoRow
    /\ statements = <<>>
    /\ pullPc = "idle"
    /\ lastPulledAt = NullTs
    /\ timestamp = NullTs
    /\ categoryChanges = NoRow
    /\ todoChanges = NoRow
    /\ delivered = [categories |-> [id \in CatIds |-> TRUE],
                    todos |-> [id \in TodoIds |-> TRUE]]
    /\ requests = 0
    /\ call = NoRow
    /\ result = NoRow

\* Date.now(): the wall clock never runs backwards, and any amount of time
\* may have passed since it was read last.
DateNow == now..MaxTime

\* ---------------------------------------------------- the push transaction
\* What the statements of the open transaction read: its own writes over the
\* committed rows (READ COMMITTED).
ViewCategory(id) ==
    IF txCategories[id] # NoRow THEN txCategories[id] ELSE categories[id]

ViewTodo(id) ==
    IF txTodos[id] # NoRow THEN txTodos[id] ELSE todos[id]

\* An existence check that does not see soft-deleted rows (mutant).
SelectCategoryLiveOnly(id, userId) ==
    LET r == ViewCategory(id)
    IN  IF r # NoRow /\ r.user_id = userId /\ ~r.is_deleted THEN r ELSE NoRow

\* An existence check on categories that is not scoped by the owner (mutant).
SelectCategoryAnyOwner(id, userId) == ViewCategory(id)

\* SELECT * FROM categories WHERE id = $1 AND user_id = $2 (rows[0] or none).
SelectCategory(id, userId) ==
    LET r == ViewCategory(id)
    IN  IF r # NoRow /\ r.user_id = userId THEN r ELSE NoRow

\* An existence check that is not scoped by the owner (mutant).
SelectTodoAnyOwner(id, userId) == ViewTodo(id)

\* SELECT * FROM todos WHERE id = $1 AND user_id = $2 (rows[0] or none).
SelectTodo(id, userId) ==
    LET r == ViewTodo(id)
    IN  IF r # NoRow /\ r.user_id = userId THEN r ELSE NoRow

\* todos.category_id REFERENCES categories(id): the referenced row must exist.
CategoryRefOk(ref) == ref = Null \/ ViewCategory(ref) # NoRow

\* The tables once COMMIT has applied the transaction's writes.
CommittedCategories == [id \in CatIds |-> ViewCategory(id)]
CommittedTodos == [id \in TodoIds |-> ViewTodo(id)]

\* A catch block that ends the transaction with its writes kept (mutant).
RolledBackCategoriesKeepWrites == CommittedCategories

\* The tables once ROLLBACK has discarded the transaction's writes.
RolledBackCategories == categories
RolledBackTodos == todos

\* A push that processes the todos before the categories (mutant).
LoopsTodosFirst ==
    <<"todos.created", "todos.updated", "todos.deleted",
      "categories.created", "categories.updated", "categories.deleted">>

\* The six loops of a push, in the order pushChanges runs them.
Loops == <<"categories.created", "categories.updated", "categories.deleted",
           "todos.created", "todos.updated", "todos.deleted">>

\* Position of a pc in that order (0: BEGIN was issued, no loop entered yet).
LoopIndex(pc) ==
    IF pc = "begin" THEN 0 ELSE CHOOSE i \in 1..Len(Loops) : Loops[i] = pc

InTx == pushPc \notin {"idle", "done"}

\* Node runs one handler at a time: between the end of the push's COMMIT or
\* ROLLBACK and its return nothing is awaited, so no other handler's step runs
\* while the push is at "done".
Yielded == pushPc # "done"

\* The push can still process an entry of this loop: it has not moved past
\* it, and the request has a further entry.
CanProcess(loop) ==
    /\ InTx
    /\ LoopIndex(pushPc) <= LoopIndex(loop)
    /\ Len(processed) < MaxBatch

\* Records whose committed version changes when the transaction commits are
\* no longer the version the client holds.
Undelivered(d, cs, ts) ==
    [categories |-> [id \in CatIds |-> d.categories[id] /\ id \notin cs],
     todos |-> [id \in TodoIds |-> d.todos[id] /\ id \notin ts]]

TxWrittenCategories == {id \in CatIds : txCategories[id] # NoRow}
TxWrittenTodos == {id \in TodoIds : txTodos[id] # NoRow}

\* router.post('/push') with a changes object: getClient(), BEGIN.
PushBegin(userId) ==
    /\ pushPc = "idle"
    /\ requests < MaxRequests
    /\ requests' = requests + 1
    /\ pushPc' = "begin"
    /\ pushUser' = userId
    /\ txCategories' = EmptyCategories
    /\ txTodos' = EmptyTodos
    /\ pushBase' = [categories |-> categories, todos |-> todos]
    /\ conflicts' = <<>>
    /\ processed' = <<>>
    /\ pushResult' = NoRow
    /\ statements' = <<"BEGIN">>
    /\ UNCHANGED <<fnVars, storeVars, now, pullVars, delivered>>

\* The bodies of POST /api/sync/push for which !changes holds: the changes
\* object is absent, or null.
BodiesWithoutChanges ==
    {[lastPulledAt |-> NullTs], [changes |-> Null, lastPulledAt |-> NullTs]}

\* if (!changes): the property is undefined or null.
NoChanges(body) ==
    IF "changes" \in DOMAIN body THEN body.changes = Null ELSE TRUE

\* res.status(400).json({ error: 'Changes object is required' }).
RejectedAnswer == [status |-> 400, error |-> "Changes object is required"]

\* A route that opens the transaction before it looks at the body (mutant).
PushRejectedAfterBegin(userId, body) ==
    /\ pushPc = "idle"
    /\ requests < MaxRequests
    /\ NoChanges(body)
    /\ requests' = requests + 1
    /\ result' = RejectedAnswer
    /\ pushPc' = "begin"
    /\ pushBase' = [categories |-> categories, todos |-> todos]
    /\ UNCHANGED <<call, storeVars, now, pushUser, txCategories, txTodos,
                   conflicts, processed, pushResult, statements, pullVars,
                   delivered>>

\* router.post('/push') without a changes object: the route answers 400 and
\* returns; pushChanges is not called. (The handler awaits nothing, so it
\* runs whenever the event loop is free.)
PushRejected(userId, body) ==
    /\ Yielded
    /\ requests < MaxRequests
    /\ NoChanges(body)
    /\ requests' = requests + 1
    /\ result' = RejectedAnswer
    /\ UNCHANGED <<call, storeVars, now, pushVars, pullVars, delivered>>

\* The statements that end the transaction are issued, and the finally block
\* gives the connection back: client.release().
Ended(issued) == statements' = statements \o issued \o <<"release">>

\* A failure answered with the ledger accumulated so far (mutant).
AbortWithLedger ==
    /\ categories' = RolledBackCategories
    /\ todos' = RolledBackTodos
    /\ pushPc' = "done"
    /\ pushResult' = [error |-> "message", ok |-> FALSE,
                      conflicts |-> conflicts']
    /\ UNCHANGED <<fnVars, pushUser, txCategories, txTodos, pushBase,
                   pullVars, delivered, requests>>

\* catch: ROLLBACK, the error is thrown to the route, which answers
\* { error: message, ok: false } with status 500;
\* finally: the connection is released.
Abort ==
    /\ categories' = RolledBackCategories
    /\ todos' = RolledBackTodos
    /\ pushPc' = "done"
    /\ pushResult' = [error |-> "message", ok |-> FALSE]
    /\ UNCHANGED <<fnVars, pushUser, txCategories, txTodos, pushBase,
                   pullVars, delivered, requests>>

\* A statement of the transaction fails for a reason outside the request
\* (a SELECT, an INSERT, an UPDATE: a timeout, a deadlock).
PushStoreError ==
    /\ InTx
    /\ processed' = processed
    /\ conflicts' = conflicts
    /\ now' = now
    /\ Ended(<<"ROLLBACK">>)
    /\ Abort

\* A COMMIT that leaves out the catch block's ROLLBACK and the release
\* (mutant).
PushCommitErrorHeld ==
    /\ InTx
    /\ processed' = processed
    /\ conflicts' = conflicts
    /\ now' = now
    /\ statements' = Append(statements, "COMMIT")
    /\ Abort

\* await client.query('COMMIT') throws: the transaction is not committed;
\* the catch block issues ROLLBACK and the finally block releases.
PushCommitError ==
    /\ InTx
    /\ processed' = processed
    /\ conflicts' = conflicts
    /\ now' = now
    /\ Ended(<<"COMMIT", "ROLLBACK">>)
    /\ Abort

\* An UPDATE that is issued whatever the resolver decided (mutant).
WriteAlways(resolution, table, id, row) == [table EXCEPT ![id] = row]

\* if (resolution.winner === 'local') { UPDATE ... }: the row is written only
\* when the client won.
WriteIfLocal(resolution, table, id, row) ==
    IF resolution.winner = "local" THEN [table EXCEPT ![id] = row] ELSE table

\* An entry of the request as processed: its list, its identifier and
\* whether the existence check found a row.
Entry(loop, record, existing) ==
    [loop |-> loop, id |-> record.id, found |-> existing # NoRow]

\* An iteration that does not record its resolution (mutant).
ProcessedLedgerDropped(entry, cats, tds, ledger) ==
    /\ txCategories' = cats
    /\ txTodos' = tds
    /\ conflicts' = conflicts
    /\ processed' = Append(processed, entry)
    /\ pushPc' = entry.loop
    /\ UNCHANGED <<fnVars, storeVars, pushUser, pushBase, pushResult, statements,
                   pullVars, delivered, requests>>

\* One iteration of a loop ends without an error.
Processed(entry, cats, tds, ledger) ==
    /\ txCategories' = cats
    /\ txTodos' = tds
    /\ conflicts' = ledger
    /\ processed' = Append(processed, entry)
    /\ pushPc' = entry.loop
    /\ UNCHANGED <<fnVars, storeVars, pushUser, pushBase, pushResult, statements,
                   pullVars,
                   delivered, requests>>

\* A statement of the iteration violates a constraint of the schema.
\* (The resolution of an existing row is pushed to the ledger before the
\* UPDATE is attempted.)
Failed(entry, ledger) ==
    /\ processed' = Append(processed, entry)
    /\ conflicts' = ledger
    /\ Ended(<<"ROLLBACK">>)
    /\ Abort

\* A missing update or delete target reported as an error (mutant).
SkippedAsError(entry) == Failed(entry, conflicts)

\* if (existing.rows.length > 0) { ... } has no else branch for 'updated'
\* and 'deleted': with no row for the owner the iteration does nothing.
Skipped(entry) == Processed(entry, txCategories, txTodos, conflicts)

\* processCategoryChanges, for (const record of changes.created).
ProcessCreatedCategory(record) ==
    /\ CanProcess("categories.created")
    /\ now' = now
    /\ LET existing == SelectCategory(record.id, pushUser)
           resolution == resolveLWW("categories", record.id, record.updated_at,
                                    existing.modified_at)
           entry == Entry("categories.created", record, existing)
       IN  IF existing # NoRow
           THEN Processed(entry,
                    WriteIfLocal(resolution, txCategories, record.id,
                                 OverwriteCategory(existing, record)),
                    txTodos, Append(conflicts, resolution))
           ELSE IF ViewCategory(record.id) # NoRow
           THEN Failed(entry, conflicts)    \* the id is another owner's row
           ELSE Processed(entry,
                    [txCategories EXCEPT
                        ![record.id] = InsertCategory(pushUser, record)],
                    txTodos, conflicts)

\* processCategoryChanges, for (const record of changes.updated).
ProcessUpdatedCategory(record) ==
    /\ CanProcess("categories.updated")
    /\ now' = now
    /\ LET existing == SelectCategory(record.id, pushUser)
           resolution == resolveLWW("categories", record.id, record.updated_at,
                                    existing.modified_at)
           entry == Entry("categories.updated", record, existing)
       IN  IF existing # NoRow
           THEN Processed(entry,
                    WriteIfLocal(resolution, txCategories, record.id,
                                 UpdateCategory(existing, record)),
                    txTodos, Append(conflicts, resolution))
           ELSE Skipped(entry)

\* processCategoryChanges, for (const id of changes.deleted).
ProcessDeletedCategory(id) ==
    /\ CanProcess("categories.deleted")
    /\ LET existing == SelectCategory(id, pushUser)
           entry == Entry("categories.deleted", [id |-> id], existing)
       IN  IF existing # NoRow
           THEN \E t \in DateNow :
                  LET resolution == resolveLWW("categories", id, t,
                                               existing.modified_at)
                  IN  /\ now' = t
                      /\ Processed(entry,
                            WriteIfLocal(resolution, txCategories, id,
                                         SoftDeleteCategory(existing, t)),
                            txTodos, Append(conflicts, resolution))
           ELSE /\ now' = now
                /\ Skipped(entry)

\* processTodoChanges, for (const record of changes.created).
ProcessCreatedTodo(record) ==
    /\ CanProcess("todos.created")
    /\ now' = now
    /\ LET existing == SelectTodo(record.id, pushUser)
           resolution == resolveLWW("todos", record.id, record.updated_at,
                                    existing.modified_at)
           entry == Entry("todos.created", record, existing)
       IN  IF existing # NoRow
           THEN IF resolution.winner = "local" /\ ~CategoryRefOk(record.category_id)
                THEN Failed(entry, Append(conflicts, resolution))
                ELSE Processed(entry, txCategories,
                        WriteIfLocal(resolution, txTodos, record.id,
                                     OverwriteTodo(existing, record)),
                        Append(conflicts, resolution))
           ELSE IF \/ ViewTodo(record.id) # NoRow
                   \/ ~CategoryRefOk(OrNull(record.category_id))
           THEN Failed(entry, conflicts)
           ELSE Processed(entry, txCategories,
                    [txTodos EXCEPT ![record.id] = InsertTodo(pushUser, record)],
                    conflicts)

\* processTodoChanges, for (const record of changes.updated).
ProcessUpdatedTodo(record) ==
    /\ CanProcess("todos.updated")
    /\ now' = now
    /\ LET existing == SelectTodo(record.id, pushUser)
           resolution == resolveLWW("todos", record.id, record.updated_at,
                                    existing.modified_at)
           entry == Entry("todos.updated", record, existing)
       IN  IF existing # NoRow
           THEN IF resolution.winner = "local" /\ ~CategoryRefOk(record.category_id)
                THEN Failed(entry, Append(conflicts, resolution))
                ELSE Processed(entry, txCategories,
                        WriteIfLocal(resolution, txTodos, record.id,
                                     UpdateTodo(existing, record)),
                        Append(conflicts, resolution))
           ELSE Skipped(entry)

\* processTodoChanges, for (const id of changes.deleted).
ProcessDeletedTodo(id) ==
    /\ CanProcess("todos.deleted")
    /\ LET existing == SelectTodo(id, pushUser)
           entry == Entry("todos.deleted", [id |-> id], existing)
       IN  IF existing # NoRow
           THEN \E t \in DateNow :
                  LET resolution == resolveLWW("todos", id, t,
                                               existing.modified_at)
                  IN  /\ now' = t
                      /\ Processed(entry, txCategories,
                            WriteIfLocal(resolution, txTodos, id,
                                         SoftDeleteTodo(existing, t)),
                            Append(conflicts, resolution))
           ELSE /\ now' = now
                /\ Skipped(entry)

\* COMMIT succeeds; pushChanges returns { ok: true, conflicts }.
PushCommit ==
    /\ InTx
    /\ categories' = CommittedCategories
    /\ todos' = CommittedTodos
    /\ delivered' = Undelivered(delivered, TxWrittenCategories, TxWrittenTodos)
    /\ pushPc' = "done"
    /\ pushResult' = [ok |-> TRUE, conflicts |-> conflicts]
    /\ Ended(<<"COMMIT">>)
    /\ UNCHANGED <<fnVars, now, pushUser, txCategories, txTodos, pushBase,
                   conflicts,
                   processed, pullVars, requests>>

\* finally: client.release(); the route sends the result (res.json) and the
\* request is over. Nothing is awaited between the end of COMMIT or ROLLBACK
\* and this, so no other request handler runs in between.
PushReturn ==
    /\ pushPc = "done"
    /\ pushPc' = "idle"
    /\ txCategories' = EmptyCategories
    /\ txTodos' = EmptyTodos
    /\ pushBase' = NoRow
    /\ conflicts' = <<>>
    /\ processed' = <<>>
    /\ pushResult' = NoRow
    /\ statements' = <<>>
    /\ pushUser' = Puller
    /\ UNCHANGED <<fnVars, storeVars, now, pullVars, delivered, requests>>

\* ------------------------------------------------------------------- pull
\* The identifiers a change set carries.
IdsOf(changes) ==
    {changes.created[i].id : i \in 1..Len(changes.created)}
        \cup {changes.updated[i].id : i \in 1..Len(changes.updated)}
        \cup {changes.deleted[i] : i \in 1..Len(changes.deleted)}

\* After a query of the pull: the returned records are the versions the
\* client will hold. A first sync leaves nothing of the owner undelivered
\* (a soft-deleted record is absent from an empty replica too).
DeliveredAfter(d, table, changes) ==
    [id \in DOMAIN d |->
        \/ d[id]
        \/ id \in IdsOf(changes)
        \/ lastPulledAt = NullTs /\ table[id] # NoRow /\ table[id].user_id = Puller]

\* The response timestamp taken before the queries are issued (mutant:
\* a timestamp one tick in the past).
PullTimestampStale(t) == IF t > 1 THEN t - 1 ELSE t

\* A response timestamp counted from the checkpoint the client sent (mutant).
PullTimestampSinceCheckpoint(t) ==
    IF lastPulledAt = NullTs THEN t ELSE t - lastPulledAt

\* const timestamp = Date.now(), the first statement of pullChanges.
PullTimestamp(t) == t

\* router.post('/pull'): pullChanges starts and captures the timestamp.
PullStart ==
    /\ Yielded
    /\ pullPc = "idle"
    /\ requests < MaxRequests
    /\ requests' = requests + 1
    /\ pullPc' = "querying"
    /\ \E t \in DateNow :
          /\ now' = t
          /\ timestamp' = PullTimestamp(t)
    /\ categoryChanges' = NoRow
    /\ todoChanges' = NoRow
    /\ UNCHANGED <<fnVars, storeVars, pushVars, lastPulledAt, delivered>>

\* A query that stamps the rows it returns with the pull's timestamp (mutant).
PullQueryCategoriesTouching ==
    /\ Yielded
    /\ pullPc = "querying"
    /\ categoryChanges = NoRow
    /\ \E changes \in getChangesSince(categories, Puller, lastPulledAt) :
          /\ categoryChanges' = changes
          /\ categories' =
                [id \in CatIds |->
                    IF id \in IdsOf(changes)
                    THEN [categories[id] EXCEPT !.modified_at = timestamp]
                    ELSE categories[id]]
          /\ delivered' = [delivered EXCEPT !.categories =
                              DeliveredAfter(@, categories, changes)]
    /\ UNCHANGED <<fnVars, todos, now, pushVars, pullPc, lastPulledAt,
                   timestamp, todoChanges, requests>>

\* categoryService.getChangesSince(userId, lastPulledAt) runs on the
\* committed table.
PullQueryCategories ==
    /\ Yielded
    /\ pullPc = "querying"
    /\ categoryChanges = NoRow
    /\ \E changes \in getChangesSince(categories, Puller, lastPulledAt) :
          /\ categoryChanges' = changes
          /\ delivered' = [delivered EXCEPT !.categories =
                              DeliveredAfter(@, categories, changes)]
    /\ UNCHANGED <<fnVars, storeVars, now, pushVars, pullPc, lastPulledAt,
                   timestamp, todoChanges, requests>>

\* todoService.getChangesSince(userId, lastPulledAt) runs on the committed
\* table.
PullQueryTodos ==
    /\ Yielded
    /\ pullPc = "querying"
    /\ todoChanges = NoRow
    /\ \E changes \in getChangesSince(todos, Puller, lastPulledAt) :
          /\ todoChanges' = changes
          /\ delivered' = [delivered EXCEPT !.todos =
                              DeliveredAfter(@, todos, changes)]
    /\ UNCHANGED <<fnVars, storeVars, now, pushVars, pullPc, lastPulledAt,
                   timestamp, categoryChanges, requests>>

\* The response of the pull in progress or of the last pull.
PullResponse ==
    [changes |->
        [categories |-> [created |-> MapCategories(categoryChanges.created),
                         updated |-> MapCategories(categoryChanges.updated),
                         deleted |-> categoryChanges.deleted],
         todos |-> [created |-> MapTodos(todoChanges.created),
                    updated |-> MapTodos(todoChanges.updated),
                    deleted |-> todoChanges.deleted]],
     timestamp |-> timestamp]

\* Promise.all resolves; the response is sent and the client stores its
\* timestamp as the checkpoint of the next pull.
PullReturn ==
    /\ Yielded
    /\ pullPc = "querying"
    /\ categoryChanges # NoRow
    /\ todoChanges # NoRow
    /\ pullPc' = "idle"
    /\ lastPulledAt' = PullResponse.timestamp
    /\ categoryChanges' = NoRow
    /\ todoChanges' = NoRow
    /\ UNCHANGED <<fnVars, storeVars, now, pushVars, timestamp, delivered,
                   requests>>

\* ---------------------------------------------------- direct record calls
\* A row written by the open push transaction is locked until it ends.
CategoryLocked(id) == InTx /\ txCategories[id] # NoRow
TodoLocked(id) == InTx /\ txTodos[id] # NoRow

\* categoryService.update: name = COALESCE($1, name), modified_at = now.
DirectUpdateCategoryRow(row, name, t) ==
    [row EXCEPT !.name = IF name = Null THEN @ ELSE name, !.modified_at = t]

\* categoryService.delete / todoService.delete: is_deleted = TRUE,
\* modified_at = now.
DirectDeleteRow(row, t) ==
    [row EXCEPT !.is_deleted = TRUE, !.modified_at = t]

\* The bodies PUT /api/todos/:id is called with here: only the fields given
\* are written.
TodoUpdateInputs == {[name |-> "b"], [done |-> TRUE, details |-> Null]}

\* todoService.update: the dynamic SET list.
DirectUpdateTodoRow(row, input, t) ==
    [row EXCEPT
        !.modified_at = t,
        !.name = IF "name" \in DOMAIN input THEN input.name ELSE @,
        !.details = IF "details" \in DOMAIN input THEN input.details ELSE @,
        !.category_id = IF "category_id" \in DOMAIN input
                        THEN input.category_id ELSE @,
        !.done = IF "done" \in DOMAIN input THEN input.done ELSE @]

DirectCategoryWrite(id, row) ==
    /\ Yielded
    /\ requests < MaxRequests
    /\ requests' = requests + 1
    /\ categories' = [categories EXCEPT ![id] = row]
    /\ pushBase' = IF InTx THEN [pushBase EXCEPT !.categories[id] = row]
                           ELSE pushBase
    /\ delivered' = Undelivered(delivered, {id}, {})
    /\ UNCHANGED <<fnVars, todos, pushPc, pushUser, txCategories, txTodos,
                   conflicts,
                   processed, pushResult, statements, pullVars>>

DirectTodoWrite(id, row) ==
    /\ Yielded
    /\ requests < MaxRequests
    /\ requests' = requests + 1
    /\ todos' = [todos EXCEPT ![id] = row]
    /\ pushBase' = IF InTx THEN [pushBase EXCEPT !.todos[id] = row]
                           ELSE pushBase
    /\ delivered' = Undelivered(delivered, {}, {id})
    /\ UNCHANGED <<fnVars, categories, pushPc, pushUser, txCategories, txTodos,
                   conflicts, processed, pushResult, statements, pullVars>>

\* PUT /api/categories/:id -> categoryService.update(id, userId, {name}).
UpdateCategoryDirect(id, userId, name) ==
    /\ ~CategoryLocked(id)
    /\ categories[id] # NoRow
    /\ categories[id].user_id = userId
    /\ \E t \in DateNow :
          /\ now' = t
          /\ DirectCategoryWrite(id, DirectUpdateCategoryRow(categories[id], name, t))

\* DELETE /api/categories/:id -> categoryService.delete(id, userId).
DeleteCategoryDirect(id, userId) ==
    /\ ~CategoryLocked(id)
    /\ categories[id] # NoRow
    /\ categories[id].user_id = userId
    /\ \E t \in DateNow :
          /\ now' = t
          /\ DirectCategoryWrite(id, DirectDeleteRow(categories[id], t))

\* PUT /api/todos/:id -> todoService.update(id, userId, input).
UpdateTodoDirect(id, userId, input) ==
    /\ ~TodoLocked(id)
    /\ todos[id] # NoRow
    /\ todos[id].user_id = userId
    /\ "category_id" \in DOMAIN input =>
          input.category_id = Null \/ categories[input.category_id] # NoRow
    /\ \E t \in DateNow :
          /\ now' = t
          /\ DirectTodoWrite(id, DirectUpdateTodoRow(todos[id], input, t))

\* DELETE /api/todos/:id -> todoService.delete(id, userId).
DeleteTodoDirect(id, userId) ==
    /\ ~TodoLocked(id)
    /\ todos[id] # NoRow
    /\ todos[id].user_id = userId
    /\ \E t \in DateNow :
          /\ now' = t
          /\ DirectTodoWrite(id, DirectDeleteRow(todos[id], t))

\* ----------------------------------------------------------- specification
Next ==
    \/ \E userId \in Users : PushBegin(userId)
    \/ \E userId \in Users, body \in BodiesWithoutChanges :
          PushRejected(userId, body)
    \/ PushStoreError
    \/ PushCommitError
    \/ \E record \in CategoryRecords : ProcessCreatedCategory(record)
    \/ \E record \in CategoryRecords : ProcessUpdatedCategory(record)
    \/ \E id \in CatIds : ProcessDeletedCategory(id)
    \/ \E record \in TodoRecords : ProcessCreatedTodo(record)
    \/ \E record \in TodoRecords : ProcessUpdatedTodo(record)
    \/ \E id \in TodoIds : ProcessDeletedTodo(id)
    \/ PushCommit
    \/ PullStart
    \/ PullQueryCategories
    \/ PullQueryTodos
    \/ PullReturn
    \/ \E id \in CatIds, userId \in Users, name \in {"b", Null} :
          UpdateCategoryDirect(id, userId, name)
    \/ \E id \in CatIds, userId \in Users : DeleteCategoryDirect(id, userId)
    \/ \E id \in TodoIds, userId \in Users, input \in TodoUpdateInputs :
          UpdateTodoDirect(id, userId, input)
    \/ \E id \in TodoIds, userId \in Users : DeleteTodoDirect(id, userId)
    \/ PushReturn

Spec == Init /\ [][Next]_vars

\* ------------------------------------------- functions applied in isolation
\* Identifiers of the rows of the tables handed to the change-log query.
QueryIds == {"q1", "q2"}

\* Any row a categories table can hold (one name is enough for the query).
QueryCategoryRows ==
    [id : QueryIds, user_id : Users, name : {"a"}, created_timestamp : Times,
     modified_at : Times, is_deleted : BOOLEAN]

\* Any row a todos table can hold (one content is enough for the query).
QueryTodoRows ==
    [id : QueryIds, user_id : Users, name : {"a"}, details : {Null},
     done : {FALSE}, category_id : {Null}, created_timestamp : Times,
     modified_at : Times, is_deleted : BOOLEAN]

\* The tables over a set of rows: the row stored under an id carries that id.
TablesOf(Rows) ==
    {t \in [QueryIds -> Rows \cup {NoRow}] :
        \A id \in QueryIds : t[id] # NoRow => t[id].id = id}

\* The checkpoints a client sends: none (first sync) or a timestamp.
Checkpoints == {NullTs} \cup Times

ResolveCalls ==
    [fn : {"resolveLWW"}, collection : {"categories", "todos"},
     recordId : CatIds \cup TodoIds, localUpdatedAt : Times,
     remoteUpdatedAt : Times]

CategoryChangeCalls ==
    [fn : {"categoryService.getChangesSince"},
     table : TablesOf(QueryCategoryRows), userId : Users, since : Checkpoints]

TodoChangeCalls ==
    [fn : {"todoService.getChangesSince"},
     table : TablesOf(QueryTodoRows), userId : Users, since : Checkpoints]

PureInit ==
    /\ categories = EmptyCategories
    /\ todos = EmptyTodos
    /\ now = 1
    /\ pushPc = "idle"
    /\ pushUser = Puller
    /\ txCategories = EmptyCategories
    /\ txTodos = EmptyTodos
    /\ pushBase = NoRow
    /\ conflicts = <<>>
    /\ processed = <<>>
    /\ pushResult = NoRow
    /\ statements = <<>>
    /\ pullPc = "idle"
    /\ lastPulledAt = NullTs
    /\ timestamp = NullTs
    /\ categoryChanges = NoRow
    /\ todoChanges = NoRow
    /\ delivered = [categories |-> [id \in CatIds |-> TRUE],
                    todos |-> [id \in TodoIds |-> TRUE]]
    /\ requests = 0
    /\ call \in ResolveCalls \cup CategoryChangeCalls \cup TodoChangeCalls
    /\ result = NoRow

Returns(value) ==
    /\ result = NoRow
    /\ result' = value
    /\ UNCHANGED <<call, storeVars, now, pushVars, pullVars, delivered,
                   requests>>

CallResolveLWW ==
    /\ call.fn = "resolveLWW"
    /\ Returns(resolveLWW(call.collection, call.recordId, call.localUpdatedAt,
                          call.remoteUpdatedAt))

CallCategoryChanges ==
    /\ call.fn = "categoryService.getChangesSince"
    /\ \E changes \in getChangesSince(call.table, call.userId, call.since) :
          Returns(changes)

CallTodoChanges ==
    /\ call.fn = "todoService.getChangesSince"
    /\ \E changes \in getChangesSince(call.table, call.userId, call.since) :
          Returns(changes)

PureNext ==
    \/ CallResolveLWW
    \/ CallCategoryChanges
    \/ CallTodoChanges

PureSpec == PureInit /\ [][PureNext]_vars

\* ================================================================== claims
\* The function named fn was applied and has returned.
Returned(fn) == call # NoRow /\ call.fn = fn /\ result # NoRow

\* A change-log query of either service was applied with a checkpoint (or,
\* for since = NullTs, without one) and has returned.
ChangesReturned ==
    /\ call # NoRow
    /\ call.fn \in {"categoryService.getChangesSince",
                     "todoService.getChangesSince"}
    /\ result # NoRow

\* The identifiers in the three buckets of the returned change set.
CreatedIds == {result.created[i].id : i \in 1..Len(result.created)}
UpdatedIds == {result.updated[i].id : i \in 1..Len(result.updated)}
DeletedIds == {result.deleted[i] : i \in 1..Len(result.deleted)}

\* The row under id belongs to the caller and changed after the checkpoint.
OwnedChanged(id) ==
    /\ call.table[id] # NoRow
    /\ call.table[id].user_id = call.userId
    /\ call.table[id].modified_at > call.since

\* C1: resolveLWW answers "local" exactly when the incoming timestamp is
\* strictly greater than the stored one and "remote" when it is equal or
\* older; the verdict is a function of the two timestamps alone, and the
\* ledger entry carries the record, the collection and both timestamps
\* as they were passed.
C1_StrictlyNewerWins ==
    Returned("resolveLWW") =>
        /\ result.winner \in {"local", "remote"}
        /\ result.winner = "local" <=>
              call.localUpdatedAt > call.remoteUpdatedAt
        /\ result.winner = "remote" <=>
              call.localUpdatedAt <= call.remoteUpdatedAt
        /\ result.localUpdatedAt = call.localUpdatedAt
        /\ result.remoteUpdatedAt = call.remoteUpdatedAt
        /\ result.recordId = call.recordId
        /\ result.collection = call.collection
        /\ \A c \in {"categories", "todos"}, id \in CatIds \cup TodoIds :
              resolveLWW(c, id, call.localUpdatedAt,
                         call.remoteUpdatedAt).winner = result.winner

\* A tie was resolved, and the server won it.
C1_TieGoesToServer ==
    /\ Returned("resolveLWW")
    /\ call.localUpdatedAt = call.remoteUpdatedAt
    /\ result.winner = "remote"

\* C6: with a checkpoint, the change-log query returns a row exactly when it
\* belongs to the caller and its modified_at is strictly greater than the
\* checkpoint, and every returned row is in exactly one of created, updated
\* and deleted, once, with the content the table holds.
C6_ChangeLogPartition ==
    (ChangesReturned /\ call.since # NullTs) =>
        /\ \A id \in QueryIds :
              OwnedChanged(id) <=>
                  id \in CreatedIds \cup UpdatedIds \cup DeletedIds
        /\ CreatedIds \cap UpdatedIds = {}
        /\ CreatedIds \cap DeletedIds = {}
        /\ UpdatedIds \cap DeletedIds = {}
        /\ Len(result.created) + Len(result.updated) + Len(result.deleted)
              = Cardinality({id \in QueryIds : OwnedChanged(id)})
        /\ \A i \in 1..Len(result.created) :
              result.created[i] = call.table[result.created[i].id]
        /\ \A i \in 1..Len(result.updated) :
              result.updated[i] = call.table[result.updated[i].id]

\* The query returned one row as deleted and one as updated while the table
\* holds nothing else: two changed rows of the caller, split over two buckets.
C6_TwoBucketsFilled ==
    /\ ChangesReturned
    /\ call.since # NullTs
    /\ Len(result.deleted) = 1
    /\ Len(result.updated) = 1
    /\ Len(result.created) = 0

\* C7: the bucket of a returned row is chosen in the order deleted, created,
\* updated: a soft-deleted row is reported only as a deletion (its identifier)
\* even when it was created after the checkpoint, a live row created after
\* the checkpoint only as created, and any other returned row only as
\* updated, so that every row in updated has created_timestamp <= checkpoint
\* < modified_at.
C7_DeletedBeforeCreatedBeforeUpdated ==
    (ChangesReturned /\ call.since # NullTs) =>
      /\ \A i \in 1..Len(result.created) :
            /\ ~result.created[i].is_deleted
            /\ result.created[i].created_timestamp > call.since
      /\ \A i \in 1..Len(result.updated) :
            /\ ~result.updated[i].is_deleted
            /\ result.updated[i].created_timestamp <= call.since
            /\ call.since < result.updated[i].modified_at
      /\ \A i \in 1..Len(result.deleted) :
            /\ result.deleted[i] \in QueryIds
            /\ call.table[result.deleted[i]].is_deleted
      /\ \A id \in QueryIds :
            OwnedChanged(id) =>
                LET row == call.table[id]
                IN  /\ row.is_deleted =>
                          /\ id \in DeletedIds
                          /\ id \notin CreatedIds \cup UpdatedIds
                    /\ (~row.is_deleted /\ row.created_timestamp > call.since) =>
                          /\ id \in CreatedIds
                          /\ id \notin UpdatedIds \cup DeletedIds
                    /\ (~row.is_deleted /\ row.created_timestamp <= call.since) =>
                          /\ id \in UpdatedIds
                          /\ id \notin CreatedIds \cup DeletedIds

\* A row that is both new (created after the checkpoint) and soft-deleted
\* was returned, as a deletion.
C7_NewAndDeletedReported ==
    /\ ChangesReturned
    /\ call.since # NullTs
    /\ \E id \in QueryIds :
          /\ OwnedChanged(id)
          /\ call.table[id].is_deleted
          /\ call.table[id].created_timestamp > call.since
          /\ id \in DeletedIds

\* C8: without a checkpoint (first sync) the query returns exactly the
\* caller's rows that are not soft-deleted, each once, all as created and
\* whatever their age; updated and deleted are empty.
C8_BootstrapAllCreated ==
    (ChangesReturned /\ call.since = NullTs) =>
        /\ result.updated = <<>>
        /\ result.deleted = <<>>
        /\ {result.created[i] : i \in 1..Len(result.created)}
              = {call.table[id] :
                    id \in {j \in QueryIds :
                              /\ call.table[j] # NoRow
                              /\ call.table[j].user_id = call.userId
                              /\ ~call.table[j].is_deleted}}
        /\ Len(result.created) = Cardinality(CreatedIds)

\* A first sync returned a live row of the caller while the table also holds
\* a soft-deleted row of the caller, which it left out.
C8_BootstrapSkipsDeleted ==
    /\ ChangesReturned
    /\ call.since = NullTs
    /\ Len(result.created) = 1
    /\ \E id \in QueryIds :
          /\ call.table[id] # NoRow
          /\ call.table[id].user_id = call.userId
          /\ call.table[id].is_deleted

\* The last element of a non-empty sequence.
Last(seq) == seq[Len(seq)]

\* C2: a push is all-or-nothing over both tables. While its transaction is
\* open none of its writes is in the tables; when it has failed, at whatever
\* entry, the tables are what they would be without the push; when it has
\* succeeded, every row it wrote, of categories and of todos, is in the
\* tables and every other row is what it would be without the push.
C2_PushAllOrNothing ==
    /\ InTx =>
          /\ categories = pushBase.categories
          /\ todos = pushBase.todos
    /\ (pushPc = "done" /\ ~pushResult.ok) =>
          /\ categories = pushBase.categories
          /\ todos = pushBase.todos
    /\ (pushPc = "done" /\ pushResult.ok) =>
          /\ \A id \in CatIds :
                categories[id] = IF id \in TxWrittenCategories
                                 THEN txCategories[id]
                                 ELSE pushBase.categories[id]
          /\ \A id \in TodoIds :
                todos[id] = IF id \in TxWrittenTodos
                            THEN txTodos[id]
                            ELSE pushBase.todos[id]

\* A push that had written a category failed while processing a todo, and
\* the category it had written is not in the table.
C2_FailedAfterCategoryWrite ==
    /\ pushPc = "done"
    /\ ~pushResult.ok
    /\ TxWrittenCategories # {}
    /\ processed # <<>>
    /\ Last(processed).loop \in {"todos.created", "todos.updated"}
    /\ \E id \in TxWrittenCategories : categories[id] # txCategories[id]

\* C3: the client that pulls with the timestamp of its previous response
\* never loses a change: between two of its pulls, every committed version
\* of a record of its owner that it has not received is one the next pull
\* selects (its modified_at is greater than the checkpoint).
C3_NoChangeLost ==
    (pullPc = "idle" /\ lastPulledAt # NullTs) =>
        /\ \A id \in CatIds :
              (/\ categories[id] # NoRow
               /\ categories[id].user_id = Puller
               /\ ~delivered.categories[id])
                  => categories[id].modified_at > lastPulledAt
        /\ \A id \in TodoIds :
              (/\ todos[id] # NoRow
               /\ todos[id].user_id = Puller
               /\ ~delivered.todos[id])
                  => todos[id].modified_at > lastPulledAt

\* The push appended an entry to the conflict ledger in this step.
LedgerGrows == Len(conflicts') = Len(conflicts) + 1

\* The push processed an entry of this loop in this step, without an error.
EntryStep(loop) ==
    /\ Len(processed') = Len(processed) + 1
    /\ pushPc' = loop

\* The step processes a 'created' / 'updated' category whose row exists for
\* the owner, with an updated_at greater than the stored modified_at.
CreatedCategoryNewer(record) ==
    /\ ProcessCreatedCategory(record)
    /\ SelectCategory(record.id, pushUser) # NoRow
    /\ record.updated_at > SelectCategory(record.id, pushUser).modified_at

UpdatedCategoryNewer(record) ==
    /\ ProcessUpdatedCategory(record)
    /\ SelectCategory(record.id, pushUser) # NoRow
    /\ record.updated_at > SelectCategory(record.id, pushUser).modified_at

\* The same for a todo; the step is one the store accepted (InTx').
CreatedTodoNewer(record) ==
    /\ ProcessCreatedTodo(record)
    /\ InTx'
    /\ SelectTodo(record.id, pushUser) # NoRow
    /\ record.updated_at > SelectTodo(record.id, pushUser).modified_at

UpdatedTodoNewer(record) ==
    /\ ProcessUpdatedTodo(record)
    /\ InTx'
    /\ SelectTodo(record.id, pushUser) # NoRow
    /\ record.updated_at > SelectTodo(record.id, pushUser).modified_at

\* C4: a pushed 'created' record whose identifier exists for the owner and
\* whose updated_at is strictly greater than the stored modified_at replaces
\* the row: every column is the payload's, translated to the storage
\* schema, modified_at is the incoming updated_at, the soft-delete flag is
\* false, and the ledger gets an entry for the record with winner "local".
C4_CreatedNewerOverwrites ==
    [][/\ EntryStep("categories.created") =>
          \A record \in CategoryRecords :
            CreatedCategoryNewer(record) =>
                /\ ViewCategory(record.id)' =
                      [id |-> record.id, user_id |-> pushUser,
                       name |-> record.title,
                       created_timestamp |-> record.created_at,
                       modified_at |-> record.updated_at,
                       is_deleted |-> FALSE]
                /\ LedgerGrows
                /\ Last(conflicts').recordId = record.id
                /\ Last(conflicts').collection = "categories"
                /\ Last(conflicts').winner = "local"
       /\ EntryStep("todos.created") =>
          \A record \in TodoRecords :
            CreatedTodoNewer(record) =>
                /\ ViewTodo(record.id)' =
                      [id |-> record.id, user_id |-> pushUser,
                       name |-> record.title,
                       details |-> record.description,
                       done |-> record.is_completed,
                       category_id |-> record.category_id,
                       created_timestamp |-> record.created_at,
                       modified_at |-> record.updated_at,
                       is_deleted |-> FALSE]
                /\ LedgerGrows
                /\ Last(conflicts').recordId = record.id
                /\ Last(conflicts').collection = "todos"
                /\ Last(conflicts').winner = "local"]_vars

\* A 'created' category entry has just won against a committed row that is
\* soft-deleted, and the row the transaction holds is live again.
C4_CreatedRevivedDeletedRow ==
    /\ pushPc = "categories.created"
    /\ Last(processed).found
    /\ Last(conflicts).winner = "local"
    /\ categories[Last(processed).id] # NoRow
    /\ categories[Last(processed).id].is_deleted
    /\ ~ViewCategory(Last(processed).id).is_deleted

\* C5: when the resolver picks "remote" for an incoming created, updated or
\* deleted entry (its timestamp is not greater than the stored modified_at),
\* that entry changes no column of any row: the rows the transaction holds
\* and the committed rows are what they were before it.
C5_RemoteWinLeavesRow ==
    [][(LedgerGrows /\ Last(conflicts').winner = "remote") =>
            /\ Last(conflicts').localUpdatedAt <= Last(conflicts').remoteUpdatedAt
            /\ \A id \in CatIds : ViewCategory(id)' = ViewCategory(id)
            /\ \A id \in TodoIds : ViewTodo(id)' = ViewTodo(id)
            /\ txCategories' = txCategories
            /\ txTodos' = txTodos
            /\ categories' = categories
            /\ todos' = todos]_vars

\* An 'updated' todo entry has just lost against the stored row.
C5_UpdatedTodoLost ==
    /\ pushPc = "todos.updated"
    /\ Last(processed).found
    /\ Last(conflicts).winner = "remote"
    /\ Last(conflicts).recordId = Last(processed).id
    /\ ViewTodo(Last(processed).id).modified_at
          >= Last(conflicts).localUpdatedAt

\* C9: a pushed 'updated' record that exists for the owner and wins the
\* resolver gets the payload's mutable fields and updated_at, and its
\* soft-delete flag is false afterwards, also when the row was soft-deleted.
C9_UpdatedWinClearsFlag ==
    [][/\ EntryStep("categories.updated") =>
          \A record \in CategoryRecords :
            UpdatedCategoryNewer(record) =>
                /\ ViewCategory(record.id)'.name = record.title
                /\ ViewCategory(record.id)'.modified_at = record.updated_at
                /\ ViewCategory(record.id)'.is_deleted = FALSE
       /\ EntryStep("todos.updated") =>
          \A record \in TodoRecords :
            UpdatedTodoNewer(record) =>
                /\ ViewTodo(record.id)'.name = record.title
                /\ ViewTodo(record.id)'.modified_at = record.updated_at
                /\ ViewTodo(record.id)'.is_deleted = FALSE]_vars

\* C10: a pushed 'deleted' identifier whose row exists sets the soft-delete
\* flag, and modified_at to the processing time, exactly when the processing
\* time is strictly greater than the stored modified_at; otherwise the
\* resolver picks "remote" and the row, its flag included, is as it was.
C10_DeleteOnlyIfNewer ==
    [][/\ \A id \in CatIds :
            LET existing == SelectCategory(id, pushUser)
            IN  (ProcessDeletedCategory(id) /\ existing # NoRow) =>
                    /\ LedgerGrows
                    /\ Last(conflicts').localUpdatedAt = now'
                    /\ IF now' > existing.modified_at
                       THEN /\ Last(conflicts').winner = "local"
                            /\ ViewCategory(id)' =
                                  [existing EXCEPT !.is_deleted = TRUE,
                                                   !.modified_at = now']
                       ELSE /\ Last(conflicts').winner = "remote"
                            /\ ViewCategory(id)' = existing
       /\ \A id \in TodoIds :
            LET existing == SelectTodo(id, pushUser)
            IN  (ProcessDeletedTodo(id) /\ existing # NoRow) =>
                    /\ LedgerGrows
                    /\ Last(conflicts').localUpdatedAt = now'
                    /\ IF now' > existing.modified_at
                       THEN /\ Last(conflicts').winner = "local"
                            /\ ViewTodo(id)' =
                                  [existing EXCEPT !.is_deleted = TRUE,
                                                   !.modified_at = now']
                       ELSE /\ Last(conflicts').winner = "remote"
                            /\ ViewTodo(id)' = existing]_vars

\* A 'deleted' todo identifier has just lost against a live row whose
\* modified_at is not before the processing time: the row stays live.
C10_DeleteLostRowLive ==
    /\ pushPc = "todos.deleted"
    /\ Last(processed).found
    /\ Last(conflicts).winner = "remote"
    /\ Last(conflicts).localUpdatedAt = now
    /\ ViewTodo(Last(processed).id).modified_at >= now
    /\ ~ViewTodo(Last(processed).id).is_deleted

\* The push processed in this step an 'updated' record or a 'deleted'
\* identifier for which the owner has no row.
MissingTargetStep ==
    /\ Len(processed') = Len(processed) + 1
    /\ Last(processed').loop \in {"categories.updated", "categories.deleted",
                                  "todos.updated", "todos.deleted"}
    /\ ~Last(processed').found

\* C11: a pushed 'updated' record or 'deleted' identifier with no row for
\* the owner is skipped silently: the step raises no error (the transaction
\* stays open, so the push can still commit), changes no row, committed or
\* written by the transaction, and adds no entry to the ledger.
C11_MissingTargetSkipped ==
    [][MissingTargetStep =>
            /\ InTx'
            /\ pushPc' = Last(processed').loop
            /\ conflicts' = conflicts
            /\ txCategories' = txCategories
            /\ txTodos' = txTodos
            /\ categories' = categories
            /\ todos' = todos]_vars

\* A push whose only entry was an 'updated' record without a row has
\* committed and returned ok:true with an empty ledger and empty tables.
C11_SkippedPushCommitted ==
    /\ pushPc = "done"
    /\ pushResult.ok
    /\ pushResult.conflicts = <<>>
    /\ Len(processed) = 1
    /\ processed[1].loop \in {"categories.updated", "todos.updated"}
    /\ ~processed[1].found
    /\ categories = EmptyCategories
    /\ todos = EmptyTodos

\* The collection a loop of the push works on.
CollectionOf(loop) ==
    IF loop \in {"categories.created", "categories.updated",
                 "categories.deleted"}
    THEN "categories" ELSE "todos"

\* The existence check of the entry found a row.
IsFound(entry) == entry.found

\* C12: the ledger of a push has exactly one entry for every incoming
\* created, updated or deleted entry, of both kinds, for which an existing
\* row was found, whoever won, and none for the others; the entries are in
\* processing order, which is categories created, updated, deleted, then
\* todos created, updated, deleted; a successful push returns that ledger.
C12_LedgerOnePerFoundEntry ==
    LET found == SelectSeq(processed, IsFound)
    IN  /\ Len(conflicts) = Len(found)
        /\ \A k \in 1..Len(conflicts) :
              /\ conflicts[k].recordId = found[k].id
              /\ conflicts[k].collection = CollectionOf(found[k].loop)
              /\ conflicts[k].winner \in {"local", "remote"}
        /\ \A i, j \in 1..Len(processed) :
              i < j => LoopIndex(processed[i].loop) <= LoopIndex(processed[j].loop)
        /\ (pushPc = "done" /\ pushResult.ok) =>
              pushResult.conflicts = conflicts

\* A push returned a ledger of two entries, a category the client won and a
\* todo the server won, in that order.
C12_LedgerLocalThenRemote ==
    /\ pushPc = "done"
    /\ pushResult.ok
    /\ Len(pushResult.conflicts) = 2
    /\ pushResult.conflicts[1].collection = "categories"
    /\ pushResult.conflicts[1].winner = "local"
    /\ pushResult.conflicts[2].collection = "todos"
    /\ pushResult.conflicts[2].winner = "remote"

\* ------------------------------------------- the same record pushed twice
\* Rows of todos the table may hold before the first push (one content).
RepushTodoRows ==
    [id : TodoIds, user_id : Users, category_id : {Null}, name : {"a"},
     details : {Null}, done : {FALSE}, created_timestamp : Times,
     modified_at : Times, is_deleted : BOOLEAN]

\* A client pushes one 'created' record, and pushes it again unchanged.
RepushCalls ==
    [fn : {"push created twice"}, userId : Users,
     collection : {"categories"}, record : CategoryRecords]
        \cup [fn : {"push created twice"}, userId : Users,
              collection : {"todos"}, record : TodoRecords]

\* The tables before the first push hold any row, of any owner, under the
\* record's identifier, or none.
RepushInit ==
    /\ call \in RepushCalls
    /\ categories \in [CatIds -> CategoryRows \cup {NoRow}]
    /\ todos \in [TodoIds -> RepushTodoRows \cup {NoRow}]
    /\ call.collection = "categories" => todos = EmptyTodos
    /\ call.collection = "todos" =>
          \A id \in CatIds :
              categories[id] # NoRow =>
                  /\ categories[id].name = "a"
                  /\ categories[id].created_timestamp = 1
                  /\ categories[id].modified_at = 1
    /\ now = 1
    /\ pushPc = "idle"
    /\ pushUser = Puller
    /\ txCategories = EmptyCategories
    /\ txTodos = EmptyTodos
    /\ pushBase = NoRow
    /\ conflicts = <<>>
    /\ processed = <<>>
    /\ pushResult = NoRow
    /\ statements = <<>>
    /\ pullPc = "idle"
    /\ lastPulledAt = NullTs
    /\ timestamp = NullTs
    /\ categoryChanges = NoRow
    /\ todoChanges = NoRow
    /\ delivered = [categories |-> [id \in CatIds |-> TRUE],
                    todos |-> [id \in TodoIds |-> TRUE]]
    /\ requests = 0
    /\ result = NoRow

\* The second push starts once the outcome of the first is known.
RepushBegin ==
    /\ requests = 0 \/ result # NoRow
    /\ PushBegin(call.userId)

RepushCategory ==
    /\ call.collection = "categories"
    /\ processed = <<>>
    /\ ProcessCreatedCategory(call.record)

RepushTodo ==
    /\ call.collection = "todos"
    /\ processed = <<>>
    /\ ProcessCreatedTodo(call.record)

RepushCommit ==
    /\ processed # <<>>
    /\ PushCommit

\* The outcome of the first push and the tables it left.
RepushFirstOutcome ==
    /\ pushPc = "done"
    /\ result = NoRow
    /\ result' = [ok |-> pushResult.ok, categories |-> categories,
                  todos |-> todos]
    /\ UNCHANGED <<call, storeVars, now, pushVars, pullVars, delivered,
                   requests>>

RepushReturn ==
    /\ result # NoRow
    /\ PushReturn

RepushNext ==
    \/ RepushBegin
    \/ RepushCategory
    \/ RepushTodo
    \/ RepushCommit
    \/ RepushFirstOutcome
    \/ RepushReturn

RepushSpec == RepushInit /\ [][RepushNext]_vars

\* C13: pushing the same 'created' record again with an unchanged
\* updated_at is idempotent: when a later push of the record has ended, the
\* tables are what the first push left, and if the first push succeeded the
\* later one succeeds with a ledger of one entry, for that record, with
\* winner "remote".
C13_RepushIsNoOp ==
    (pushPc = "done" /\ requests >= 2 /\ result # NoRow) =>
        /\ categories = result.categories
        /\ todos = result.todos
        /\ result.ok =>
              /\ pushResult.ok
              /\ Len(pushResult.conflicts) = 1
              /\ pushResult.conflicts[1].recordId = call.record.id
              /\ pushResult.conflicts[1].collection = call.collection
              /\ pushResult.conflicts[1].winner = "remote"

\* The second push of a todo the first push had inserted has ended: the
\* resolver saw equal timestamps and the server won.
C13_RepushTied ==
    /\ pushPc = "done"
    /\ requests = 2
    /\ result # NoRow
    /\ result.ok
    /\ call.collection = "todos"
    /\ pushResult.ok
    /\ pushResult.conflicts[1].localUpdatedAt
          = pushResult.conflicts[1].remoteUpdatedAt
    /\ todos[call.record.id] = InsertTodo(call.userId, call.record)

\* C14: checkpoints are monotone: the response timestamp of a pull issued
\* after an earlier pull of the owner has returned is greater than or equal
\* to the timestamp of that earlier response (which the client sends back
\* as lastPulledAt).
C14_CheckpointMonotone ==
    [][(pullPc = "idle" /\ pullPc' = "querying") =>
            /\ timestamp' >= timestamp
            /\ timestamp' >= lastPulledAt
            /\ lastPulledAt' = lastPulledAt]_vars

\* A second pull is in progress; it has captured a timestamp later than the
\* one the first pull returned.
C14_SecondPullLater ==
    /\ pullPc = "querying"
    /\ lastPulledAt # NullTs
    /\ timestamp > lastPulledAt

\* C15: the stored modification timestamp of a record never decreases,
\* whatever operation (a committing push, a direct update or delete) changes
\* the tables.
C15_ModifiedAtNeverDecreases ==
    [][/\ \A id \in CatIds :
            (categories[id] # NoRow /\ categories'[id] # NoRow) =>
                categories'[id].modified_at >= categories[id].modified_at
       /\ \A id \in TodoIds :
            (todos[id] # NoRow /\ todos'[id] # NoRow) =>
                todos'[id].modified_at >= todos[id].modified_at]_vars

\* C16: the creation timestamp of a record is immutable: once a row is
\* stored, no operation (a committing push, whatever its entries, or a
\* direct write) changes its created_timestamp.
C16_CreatedTimestampImmutable ==
    [][/\ \A id \in CatIds :
            (categories[id] # NoRow /\ categories'[id] # NoRow) =>
                categories'[id].created_timestamp
                    = categories[id].created_timestamp
       /\ \A id \in TodoIds :
            (todos[id] # NoRow /\ todos'[id] # NoRow) =>
                todos'[id].created_timestamp = todos[id].created_timestamp]_vars

\* C17: sync never removes a row and a soft-deleted row keeps its
\* identifier: a stored row stays stored, with its owner, whatever happens,
\* and a 'created' entry for the identifier of a soft-deleted row of the
\* owner is resolved against that row (the ledger gets an entry comparing
\* with its modified_at) and leaves it or overwrites it in place.
C17_NoRemovalNoReuse ==
    [][/\ \A id \in CatIds :
            categories[id] # NoRow =>
                /\ categories'[id] # NoRow
                /\ categories'[id].user_id = categories[id].user_id
       /\ \A id \in TodoIds :
            todos[id] # NoRow =>
                /\ todos'[id] # NoRow
                /\ todos'[id].user_id = todos[id].user_id
       /\ Len(processed') = Len(processed) + 1 =>
            /\ \A record \in CategoryRecords :
                  LET existing == SelectCategory(record.id, pushUser)
                  IN  (/\ ProcessCreatedCategory(record)
                       /\ ViewCategory(record.id) # NoRow
                       /\ ViewCategory(record.id).user_id = pushUser
                       /\ ViewCategory(record.id).is_deleted) =>
                          /\ LedgerGrows
                          /\ Last(conflicts').recordId = record.id
                          /\ Last(conflicts').remoteUpdatedAt
                                = existing.modified_at
                          /\ ViewCategory(record.id)' \in
                                {existing, OverwriteCategory(existing, record)}
            /\ \A record \in TodoRecords :
                  LET existing == SelectTodo(record.id, pushUser)
                  IN  (/\ ProcessCreatedTodo(record)
                       /\ ViewTodo(record.id) # NoRow
                       /\ ViewTodo(record.id).user_id = pushUser
                       /\ ViewTodo(record.id).is_deleted) =>
                          /\ LedgerGrows
                          /\ Last(conflicts').recordId = record.id
                          /\ Last(conflicts').remoteUpdatedAt
                                = existing.modified_at
                          /\ ViewTodo(record.id)' \in
                                {existing, OverwriteTodo(existing, record)}]_vars

\* A 'created' category entry for the identifier of a committed soft-deleted
\* row has been resolved against that row and lost: the row is still there,
\* still soft-deleted.
C17_CreatedOnDeletedResolved ==
    /\ pushPc = "categories.created"
    /\ Len(processed) = 1
    /\ processed[1].found
    /\ categories[processed[1].id] # NoRow
    /\ categories[processed[1].id].is_deleted
    /\ txCategories[processed[1].id] = NoRow
    /\ Last(conflicts).winner = "remote"

\* C18: deleting a category clears the references to it: when an operation
\* (a committing push with a winning 'deleted' entry, or the direct delete)
\* turns a live category into a soft-deleted one, no stored todo references
\* that category afterwards.
C18_DeleteClearsReferences ==
    [][\A c \in CatIds :
          (/\ categories[c] # NoRow
           /\ ~categories[c].is_deleted
           /\ categories'[c] # NoRow
           /\ categories'[c].is_deleted) =>
              \A t \in TodoIds :
                  todos'[t] # NoRow => todos'[t].category_id # c]_vars

\* C19: a push that ends on a store error answers with a single failure,
\* ok:false, that carries no ledger, whatever had been accumulated, and
\* leaves the tables alone; the answer ok:true, with the ledger, is given
\* only by the step in which COMMIT succeeds.
C19_FailureReturnsNoLedger ==
    [][/\ (InTx /\ pushPc' = "done") =>
            IF PushCommit
            THEN pushResult' = [ok |-> TRUE, conflicts |-> conflicts]
            ELSE /\ pushResult'.ok = FALSE
                 /\ "conflicts" \notin DOMAIN pushResult'
                 /\ categories' = categories
                 /\ todos' = todos
       /\ (pushResult' # pushResult /\ pushResult' # NoRow /\ pushResult'.ok) =>
            PushCommit]_vars

\* A push failed after its ledger had received an entry; the answer is
\* ok:false without a ledger.
C19_FailedWithLedgerEntries ==
    /\ pushPc = "done"
    /\ ~pushResult.ok
    /\ conflicts # <<>>
    /\ "conflicts" \notin DOMAIN pushResult

\* The rows and identifiers a change set of the pull holds belong to owner.
ChangesOwnedBy(changes, table, owner) ==
    /\ \A i \in 1..Len(changes.created) :
          changes.created[i].user_id = owner
    /\ \A i \in 1..Len(changes.updated) :
          changes.updated[i].user_id = owner
    /\ \A i \in 1..Len(changes.deleted) :
          /\ table[changes.deleted[i]] # NoRow
          /\ table[changes.deleted[i]].user_id = owner

\* C20: queries and mutations are scoped by the owner: every row a push
\* writes (inserts included) has the owner of the push; when the push ends,
\* committed or not, the rows of every other owner are what they were; and
\* the change sets of a pull hold rows and identifiers of its owner only.
C20_OwnerScoped ==
    [][/\ \A id \in CatIds :
            txCategories'[id] # NoRow =>
                txCategories'[id].user_id = pushUser'
       /\ \A id \in TodoIds :
            txTodos'[id] # NoRow => txTodos'[id].user_id = pushUser'
       /\ (InTx /\ pushPc' = "done") =>
            /\ \A id \in CatIds :
                  (categories[id] # NoRow
                      /\ categories[id].user_id # pushUser) =>
                          categories'[id] = categories[id]
            /\ \A id \in TodoIds :
                  (todos[id] # NoRow /\ todos[id].user_id # pushUser) =>
                      todos'[id] = todos[id]
       /\ categoryChanges' # NoRow =>
            ChangesOwnedBy(categoryChanges', categories', Puller)
       /\ todoChanges' # NoRow =>
            ChangesOwnedBy(todoChanges', todos', Puller)]_vars

\* A push has processed an 'updated' todo whose identifier is the row of
\* another owner: the existence check found nothing and the row is as it was.
C20_OtherOwnersRowNotFound ==
    /\ pushPc = "todos.updated"
    /\ ~Last(processed).found
    /\ todos[Last(processed).id] # NoRow
    /\ todos[Last(processed).id].user_id # pushUser
    /\ txTodos[Last(processed).id] = NoRow

\* The step in which pullChanges runs const timestamp = Date.now().
CaptureStep == pullPc = "idle" /\ pullPc' = "querying"

\* A step in which one of the two change-log queries of the pull is read.
ReadStep ==
    \/ categoryChanges = NoRow /\ categoryChanges' # NoRow
    \/ todoChanges = NoRow /\ todoChanges' # NoRow

\* The step in which the pull answers.
AnswerStep == pullPc = "querying" /\ pullPc' = "idle"

\* C21 (as stated): the response timestamp of a pull is captured after the
\* change-log reads of both kinds, never before them: it is not earlier than
\* the clock at either read.
C21_TimestampAfterReads ==
    [][ReadStep => timestamp' >= now']_vars

\* C21 (amended): the response timestamp of a pull is captured when
\* pullChanges is entered, before either change-log read: at the capture no
\* read has been made, the reads leave the timestamp as captured (so it is
\* not later than the clock at a read), and it is the timestamp the answer
\* carries as the next checkpoint.
C21_TimestampBeforeReads ==
    [][/\ CaptureStep =>
            /\ timestamp' = now'
            /\ categoryChanges' = NoRow
            /\ todoChanges' = NoRow
       /\ ReadStep =>
            /\ pullPc = "querying"
            /\ timestamp' = timestamp
            /\ timestamp <= now
       /\ AnswerStep =>
            /\ categoryChanges # NoRow
            /\ todoChanges # NoRow
            /\ lastPulledAt' = timestamp]_vars

\* A pull has read the categories after a write that happened later than its
\* timestamp: the response timestamp is older than the row it returns.
C21_ReadAfterLaterWrite ==
    /\ pullPc = "querying"
    /\ categoryChanges # NoRow
    /\ timestamp < now
    /\ \E i \in 1..Len(categoryChanges.created) :
          categoryChanges.created[i].modified_at > timestamp

\* ------------------------------------- a record pushed as new, then pulled
\* The todo records a client may push as new: any title, description
\* (absent, empty or not), completion flag and category reference.
RoundTripTodoRecords ==
    [id : TodoIds, title : Titles, description : Descriptions,
     is_completed : BOOLEAN, category_id : CategoryRefs,
     created_at : Times, updated_at : Times]

\* The category a pushed todo may refer to, already stored for the owner.
RoundTripCategory ==
    [id |-> "c1", user_id |-> Puller, name |-> "a", created_timestamp |-> 1,
     modified_at |-> 1, is_deleted |-> FALSE]

\* A client pushes one 'created' record and then makes its first pull.
RoundTripCalls ==
    [fn : {"push created, pull"}, collection : {"categories"},
     record : CategoryRecords]
        \cup [fn : {"push created, pull"}, collection : {"todos"},
              record : RoundTripTodoRecords]

\* The owner has no row under the record's identifier.
RoundTripInit ==
    /\ call \in RoundTripCalls
    /\ categories \in
          IF call.collection = "categories"
          THEN {EmptyCategories}
          ELSE {EmptyCategories, [id \in CatIds |-> RoundTripCategory]}
    /\ todos = EmptyTodos
    /\ now = 1
    /\ pushPc = "idle"
    /\ pushUser = Puller
    /\ txCategories = EmptyCategories
    /\ txTodos = EmptyTodos
    /\ pushBase = NoRow
    /\ conflicts = <<>>
    /\ processed = <<>>
    /\ pushResult = NoRow
    /\ statements = <<>>
    /\ pullPc = "idle"
    /\ lastPulledAt = NullTs
    /\ timestamp = NullTs
    /\ categoryChanges = NoRow
    /\ todoChanges = NoRow
    /\ delivered = [categories |-> [id \in CatIds |-> TRUE],
                    todos |-> [id \in TodoIds |-> TRUE]]
    /\ requests = 0
    /\ result = NoRow

RoundTripBegin ==
    /\ requests = 0
    /\ PushBegin(Puller)

RoundTripPushCategory ==
    /\ call.collection = "categories"
    /\ processed = <<>>
    /\ ProcessCreatedCategory(call.record)

RoundTripPushTodo ==
    /\ call.collection = "todos"
    /\ processed = <<>>
    /\ ProcessCreatedTodo(call.record)

RoundTripCommit ==
    /\ processed # <<>>
    /\ PushCommit

\* The answer the client receives to its push.
RoundTripPushAnswer ==
    /\ pushPc = "done"
    /\ result = NoRow
    /\ result' = [ok |-> pushResult.ok]
    /\ UNCHANGED <<call, storeVars, now, pushVars, pullVars, delivered,
                   requests>>

RoundTripPushReturn ==
    /\ result # NoRow
    /\ PushReturn

\* The client pulls once its push has succeeded.
RoundTripPullStart ==
    /\ result # NoRow
    /\ result.ok
    /\ pushPc = "idle"
    /\ PullStart

RoundTripNext ==
    \/ RoundTripBegin
    \/ RoundTripPushCategory
    \/ RoundTripPushTodo
    \/ RoundTripCommit
    \/ RoundTripPushAnswer
    \/ RoundTripPushReturn
    \/ RoundTripPullStart
    \/ PullQueryCategories
    \/ PullQueryTodos
    \/ PullReturn

RoundTripSpec == RoundTripInit /\ [][RoundTripNext]_vars

\* Both queries of the pull have returned: the response is complete.
ResponseReady ==
    /\ pullPc = "querying"
    /\ categoryChanges # NoRow
    /\ todoChanges # NoRow

\* C22: field translation round-trips: a record pushed as a new 'created'
\* record and then pulled comes back, in the created list of its kind, with
\* the values of title, description, is_completed, category_id, created_at
\* and updated_at it was pushed with.
C22_TranslationRoundTrips ==
    ResponseReady =>
        LET created == PullResponse.changes[call.collection].created
        IN  \E i \in 1..Len(created) : created[i] = call.record

\* C23: a push request without a changes object is rejected with an error
\* before pushChanges is called: the route answers 400, no transaction is
\* begun (the push state is as it was), no query of the pull and no
\* statement of a push runs, and the tables are unchanged.
C23_MissingChangesRejected ==
    [][\A userId \in Users, body \in BodiesWithoutChanges :
          PushRejected(userId, body) =>
              /\ result' = RejectedAnswer
              /\ pushPc' = pushPc
              /\ pushBase' = pushBase
              /\ txCategories' = txCategories
              /\ txTodos' = txTodos
              /\ processed' = processed
              /\ categories' = categories
              /\ todos' = todos
              /\ pullPc' = pullPc]_vars

\* A request without changes was rejected, and the only other request was a
\* push that has written a category and is still in its transaction: the
\* table is empty and the transaction is the one that push began.
C23_RejectedBesideOpenPush ==
    /\ result = RejectedAnswer
    /\ requests = 2
    /\ pushPc = "categories.created"
    /\ TxWrittenCategories # {}
    /\ categories = EmptyCategories

\* The place of a list in the order categories before todos and, within a
\* kind, created before updated before deleted.
Rank(loop) ==
    (IF CollectionOf(loop) = "categories" THEN 0 ELSE 3)
        + (CASE loop \in {"categories.created", "todos.created"} -> 1
             [] loop \in {"categories.updated", "todos.updated"} -> 2
             [] OTHER -> 3)

\* C24: within one push the processing order is fixed: every category entry
\* is processed before any todo entry and, within a kind, the created
\* entries before the updated before the deleted ones; so when a 'created'
\* todo that references a category is written, the row of that category
\* exists for the transaction, also when the same push created it.
C24_FixedProcessingOrder ==
    [][/\ \A i, j \in 1..Len(processed') :
            i < j => Rank(processed'[i].loop) <= Rank(processed'[j].loop)
       /\ EntryStep("todos.created") =>
            \A record \in TodoRecords :
                (/\ ProcessCreatedTodo(record)
                 /\ txTodos'[record.id] # txTodos[record.id]
                 /\ record.category_id # Null) =>
                    ViewCategory(record.category_id) # NoRow]_vars

\* A push has inserted a category and then a todo that references it; the
\* category is not committed yet.
C24_TodoAfterItsCategory ==
    /\ pushPc = "todos.created"
    /\ Len(processed) = 2
    /\ processed[1].loop = "categories.created"
    /\ ~processed[1].found
    /\ ~processed[2].found
    /\ categories = EmptyCategories
    /\ \E id \in TodoIds :
          /\ txTodos[id] # NoRow
          /\ txTodos[id].category_id \in TxWrittenCategories

C26_BucketsByModifiedAt ==
    (ChangesReturned /\ call.since # NullTs) =>
        /\ \A i, j \in 1..Len(result.created) :
              i < j => result.created[i].modified_at
                          <= result.created[j].modified_at
        /\ \A i, j \in 1..Len(result.updated) :
              i < j => result.updated[i].modified_at
                          <= result.updated[j].modified_at
        /\ \A i, j \in 1..Len(result.deleted) :
              i < j => call.table[result.deleted[i]].modified_at
                          <= call.table[result.deleted[j]].modified_at

\* The query returned two rows in the same list, the second one modified
\* strictly later than the first.
C26_TwoCreatedInOrder ==
    /\ ChangesReturned
    /\ call.since # NullTs
    /\ Len(result.created) = 2
    /\ result.created[1].modified_at < result.created[2].modified_at

\* ------------------------------------------ a client that holds a checkpoint
\* The tables are empty and the owner's client either has made no pull yet
\* or made its first pull at time 1 and stored the timestamp 1 as its
\* checkpoint; the requests are counted from here.
CheckpointInit ==
    /\ categories = EmptyCategories
    /\ todos = EmptyTodos
    /\ now = 1
    /\ pushPc = "idle"
    /\ pushUser = Puller
    /\ txCategories = EmptyCategories
    /\ txTodos = EmptyTodos
    /\ pushBase = NoRow
    /\ conflicts = <<>>
    /\ processed = <<>>
    /\ pushResult = NoRow
    /\ statements = <<>>
    /\ pullPc = "idle"
    /\ lastPulledAt \in {NullTs, 1}
    /\ timestamp = lastPulledAt
    /\ categoryChanges = NoRow
    /\ todoChanges = NoRow
    /\ delivered = [categories |-> [id \in CatIds |-> TRUE],
                    todos |-> [id \in TodoIds |-> TRUE]]
    /\ requests = 0
    /\ call = NoRow
    /\ result = NoRow

CheckpointSpec == CheckpointInit /\ [][Next]_vars

\* The rows of the owner a table holds with modified_at above the checkpoint.
AboveCheckpoint(table) ==
    {id \in DOMAIN table :
        /\ table[id] # NoRow
        /\ table[id].user_id = Puller
        /\ table[id].modified_at > lastPulledAt}

\* C27: the two change-log queries of a pull, run independently, never
\* observe a concurrent push partially. (When the response of a pull is
\* complete and one other request has been made since the tables were empty,
\* every row in the tables was written by that one push.) If the response
\* holds a todo of that push, it holds every category of that push that is
\* above the checkpoint, and the reverse.
C27_PullNeverSeesPushPartially ==
    (ResponseReady /\ lastPulledAt # NullTs /\ requests = 2) =>
        /\ AboveCheckpoint(todos) \cap IdsOf(todoChanges) # {} =>
              AboveCheckpoint(categories) \subseteq IdsOf(categoryChanges)
        /\ AboveCheckpoint(categories) \cap IdsOf(categoryChanges) # {} =>
              AboveCheckpoint(todos) \subseteq IdsOf(todoChanges)

\* Two change sets hold the same records in each of their three lists.
SameChanges(a, b) ==
    /\ Len(a.created) = Len(b.created)
    /\ Len(a.updated) = Len(b.updated)
    /\ Len(a.deleted) = Len(b.deleted)
    /\ {a.created[i] : i \in 1..Len(a.created)}
          = {b.created[i] : i \in 1..Len(b.created)}
    /\ {a.updated[i] : i \in 1..Len(a.updated)}
          = {b.updated[i] : i \in 1..Len(b.updated)}
    /\ {a.deleted[i] : i \in 1..Len(a.deleted)}
          = {b.deleted[i] : i \in 1..Len(b.deleted)}

\* C28: a pull is read-only: no step of pullChanges (capturing the timestamp,
\* either query, the answer) changes a row of categories or todos, committed
\* or held by an open transaction; so the same query with the same
\* checkpoint, made again on the tables as the pull left them, returns the
\* same change set.
C28_PullReadOnly ==
    [][(CaptureStep \/ ReadStep \/ AnswerStep) =>
          /\ categories' = categories
          /\ todos' = todos
          /\ txCategories' = txCategories
          /\ txTodos' = txTodos
          /\ (categoryChanges = NoRow /\ categoryChanges' # NoRow) =>
                \A again \in getChangesSince(categories', Puller, lastPulledAt') :
                    SameChanges(again, categoryChanges')
          /\ (todoChanges = NoRow /\ todoChanges' # NoRow) =>
                \A again \in getChangesSince(todos', Puller, lastPulledAt') :
                    SameChanges(again, todoChanges')]_vars

\* A pull with a checkpoint has returned a category from its query, and the
\* stored row is the one it returned.
C28_ReadLeftRow ==
    /\ pullPc = "querying"
    /\ lastPulledAt # NullTs
    /\ categoryChanges # NoRow
    /\ Len(categoryChanges.created) = 1
    /\ categories[categoryChanges.created[1].id] = categoryChanges.created[1]
    /\ categoryChanges.created[1].modified_at # timestamp

\* ------------------------------------- pushes on a store that answers
\* One push, alone. Every awaited statement of the push is answered: once
\* the processing loops are over COMMIT is issued and answered, and once the
\* transaction has ended the handler returns.
\* A todo already stored for the owner.
PushLiveTodo ==
    [id |-> "t1", user_id |-> Puller, category_id |-> Null, name |-> "a",
     details |-> Null, done |-> FALSE, created_timestamp |-> 1,
     modified_at |-> 2, is_deleted |-> FALSE]

\* The tables hold a category, a todo, both or nothing.
PushLiveInit ==
    /\ categories \in {EmptyCategories, [id \in CatIds |-> RoundTripCategory]}
    /\ todos \in {EmptyTodos, [id \in TodoIds |-> PushLiveTodo]}
    /\ now = 1
    /\ pushPc = "idle"
    /\ pushUser = Puller
    /\ txCategories = EmptyCategories
    /\ txTodos = EmptyTodos
    /\ pushBase = NoRow
    /\ conflicts = <<>>
    /\ processed = <<>>
    /\ pushResult = NoRow
    /\ statements = <<>>
    /\ pullPc = "idle"
    /\ lastPulledAt = NullTs
    /\ timestamp = NullTs
    /\ categoryChanges = NoRow
    /\ todoChanges = NoRow
    /\ delivered = [categories |-> [id \in CatIds |-> TRUE],
                    todos |-> [id \in TodoIds |-> TRUE]]
    /\ requests = 0
    /\ call = NoRow
    /\ result = NoRow

\* One push request.
PushLiveBegin ==
    /\ requests = 0
    /\ \E userId \in Users : PushBegin(userId)

PushLiveNext ==
    \/ PushLiveBegin
    \/ PushStoreError
    \/ PushCommitError
    \/ \E record \in CategoryRecords : ProcessCreatedCategory(record)
    \/ \E record \in CategoryRecords : ProcessUpdatedCategory(record)
    \/ \E id \in CatIds : ProcessDeletedCategory(id)
    \/ \E record \in TodoRecords : ProcessCreatedTodo(record)
    \/ \E record \in TodoRecords : ProcessUpdatedTodo(record)
    \/ \E id \in TodoIds : ProcessDeletedTodo(id)
    \/ PushCommit
    \/ PushReturn

PushLiveSpec ==
    /\ PushLiveInit
    /\ [][PushLiveNext]_vars
    /\ WF_vars(PushCommit \/ PushCommitError)
    /\ WF_vars(PushReturn)

IsEnd(statement) == statement \in {"COMMIT", "ROLLBACK"}
IsRelease(statement) == statement = "release"

\* C29 (as stated): a push that has ended issued, after BEGIN, exactly one
\* of COMMIT and ROLLBACK and released its connection exactly once, on every
\* path, an error during COMMIT included.
C29_ExactlyOneOfCommitRollback ==
    pushPc = "done" =>
        /\ Head(statements) = "BEGIN"
        /\ Len(SelectSeq(statements, IsEnd)) = 1
        /\ Len(SelectSeq(statements, IsRelease)) = 1
        /\ Last(statements) = "release"

\* C29 (amended): every push ends its transaction and gives back its
\* connection. While the transaction is open only BEGIN has been issued; a
\* push that has ended issued BEGIN, then COMMIT alone when it succeeded,
\* ROLLBACK alone when a statement before COMMIT failed, and the failed
\* COMMIT followed by ROLLBACK when COMMIT failed, and then released the
\* connection, once and last; the handler returns only after that; and a
\* push that has begun does return.
C29_TransactionEndedConnectionReleased ==
    /\ [](InTx => statements = <<"BEGIN">>)
    /\ [](pushPc = "idle" => statements = <<>>)
    /\ [](pushPc = "done" =>
            /\ statements \in {<<"BEGIN", "COMMIT", "release">>,
                               <<"BEGIN", "ROLLBACK", "release">>,
                               <<"BEGIN", "COMMIT", "ROLLBACK", "release">>}
            /\ pushResult.ok <=> statements = <<"BEGIN", "COMMIT", "release">>)
    /\ [][(pushPc # "idle" /\ pushPc' = "idle") =>
            /\ pushPc = "done"
            /\ Last(statements) = "release"]_vars
    /\ (pushPc # "idle") ~> (pushPc = "idle")

\* A push whose COMMIT failed has ended: ROLLBACK was issued after the
\* failed COMMIT, the connection is released and the tables are as before.
C29_CommitFailedRolledBack ==
    /\ pushPc = "done"
    /\ ~pushResult.ok
    /\ statements = <<"BEGIN", "COMMIT", "ROLLBACK", "release">>
    /\ TxWrittenCategories # {}
    /\ categories = pushBase.categories

\* ------------------------- two pushes that update the same existing record
\* The two push requests, each on its own connection and transaction.
Pushers == {"A", "B"}

\* Two devices of the owner each push one 'updated' entry for the record,
\* which is stored with modified_at = stored.
TwoPushCalls ==
    [fn : {"two pushes update"}, collection : {"categories"},
     stored : Times, records : [Pushers -> CategoryRecords]]
        \cup [fn : {"two pushes update"}, collection : {"todos"},
              stored : Times, records : [Pushers -> TodoRecords]]

\* The identifier both entries name.
TwoPushId == IF call.collection = "categories" THEN "c1" ELSE "t1"

\* The committed row of the record.
TwoPushStored ==
    IF call.collection = "categories" THEN categories[TwoPushId]
    ELSE todos[TwoPushId]

\* The row as the UPDATE of an 'updated' entry sets it.
TwoPushUpdated(row, record) ==
    IF call.collection = "categories" THEN UpdateCategory(row, record)
    ELSE UpdateTodo(row, record)

\* What a push has done: nothing, BEGIN, the existence SELECT (with the row
\* it returned), the UPDATE or its omission (with the resolution and the row
\* written, if any), COMMIT.
TwoPushStart ==
    [p \in Pushers |-> [pc |-> "idle", existing |-> NoRow,
                        resolution |-> NoRow, written |-> NoRow]]

TwoPushInit ==
    /\ call \in TwoPushCalls
    /\ categories =
          [id \in CatIds |->
              [RoundTripCategory EXCEPT
                  !.modified_at = IF call.collection = "categories"
                                  THEN call.stored ELSE @]]
    /\ todos = IF call.collection = "categories"
               THEN EmptyTodos
               ELSE [id \in TodoIds |->
                        [PushLiveTodo EXCEPT !.modified_at = call.stored]]
    /\ result = TwoPushStart
    /\ now = 1
    /\ pushPc = "idle"
    /\ pushUser = Puller
    /\ txCategories = EmptyCategories
    /\ txTodos = EmptyTodos
    /\ pushBase = NoRow
    /\ conflicts = <<>>
    /\ processed = <<>>
    /\ pushResult = NoRow
    /\ statements = <<>>
    /\ pullPc = "idle"
    /\ lastPulledAt = NullTs
    /\ timestamp = NullTs
    /\ categoryChanges = NoRow
    /\ todoChanges = NoRow
    /\ delivered = [categories |-> [id \in CatIds |-> TRUE],
                    todos |-> [id \in TodoIds |-> TRUE]]
    /\ requests = 0

\* Only the tables and the state of the two pushes change.
TwoPushFrame ==
    UNCHANGED <<call, now, pushVars, pullVars, delivered, requests>>

\* pushChanges: getClient(), BEGIN.
TwoPushBegin(p) ==
    /\ result[p].pc = "idle"
    /\ result' = [result EXCEPT ![p].pc = "begun"]
    /\ UNCHANGED storeVars
    /\ TwoPushFrame

\* const existing = await client.query('SELECT * ... WHERE id AND user_id'):
\* the statement sees the row as last committed (READ COMMITTED).
TwoPushSelect(p) ==
    /\ result[p].pc = "begun"
    /\ result' = [result EXCEPT ![p].pc = "selected",
                                ![p].existing = TwoPushStored]
    /\ UNCHANGED storeVars
    /\ TwoPushFrame

\* The row is locked by the other push: it has updated it and not committed.
TwoPushLocked(p) ==
    \E q \in Pushers \ {p} :
        result[q].pc = "updated" /\ result[q].written # NoRow

\* resolveLWW against the row the SELECT returned; if the client wins,
\* await UPDATE ... WHERE id AND user_id: the statement waits for the row
\* lock and then updates the row as last committed.
TwoPushUpdate(p) ==
    /\ result[p].pc = "selected"
    /\ LET record == call.records[p]
           resolution == resolveLWW(call.collection, record.id,
                                    record.updated_at,
                                    result[p].existing.modified_at)
       IN  IF resolution.winner = "local"
           THEN /\ ~TwoPushLocked(p)
                /\ result' = [result EXCEPT
                      ![p].pc = "updated",
                      ![p].resolution = resolution,
                      ![p].written = TwoPushUpdated(TwoPushStored, record)]
           ELSE result' = [result EXCEPT ![p].pc = "updated",
                                         ![p].resolution = resolution]
    /\ UNCHANGED storeVars
    /\ TwoPushFrame

\* COMMIT: the row the push wrote, if any, becomes the committed row.
TwoPushCommit(p) ==
    /\ result[p].pc = "updated"
    /\ result' = [result EXCEPT ![p].pc = "committed"]
    /\ IF result[p].written = NoRow
       THEN UNCHANGED storeVars
       ELSE IF call.collection = "categories"
       THEN /\ categories' = [categories EXCEPT ![TwoPushId] = result[p].written]
            /\ todos' = todos
       ELSE /\ todos' = [todos EXCEPT ![TwoPushId] = result[p].written]
            /\ categories' = categories
    /\ TwoPushFrame

TwoPushNext ==
    \/ \E p \in Pushers : TwoPushBegin(p)
    \/ \E p \in Pushers : TwoPushSelect(p)
    \/ \E p \in Pushers : TwoPushUpdate(p)
    \/ \E p \in Pushers : TwoPushCommit(p)

TwoPushSpec == TwoPushInit /\ [][TwoPushNext]_vars

\* The greatest of the initially stored timestamp and the two pushed ones.
TwoPushLatest ==
    LET a == call.records["A"].updated_at
        b == call.records["B"].updated_at
        m == IF a >= b THEN a ELSE b
    IN  IF m >= call.stored THEN m ELSE call.stored

\* C30: last-write-wins holds under concurrent pushes: when two pushes that
\* update the same existing record have both committed, whatever the
\* interleaving of their reads and writes, the committed row has modified_at
\* equal to the greatest of the initially stored timestamp and the two
\* pushed ones, and, if that is a pushed one, the fields of such an entry.
C30_ConcurrentPushesKeepLatest ==
    (\A p \in Pushers : result[p].pc = "committed") =>
        /\ TwoPushStored.modified_at = TwoPushLatest
        /\ TwoPushLatest > call.stored =>
              \E p \in Pushers :
                  /\ call.records[p].updated_at = TwoPushLatest
                  /\ TwoPushStored =
                        TwoPushUpdated(TwoPushStored, call.records[p])

\* ------------------------------------- 'created' under another owner's id
\* The step processes a 'created' entry of this list whose identifier is the
\* committed row of an owner other than the push's.
CreatedOnForeignId(loop, table) ==
    /\ InTx
    /\ Len(processed') = Len(processed) + 1
    /\ Last(processed').loop = loop
    /\ table[Last(processed').id] # NoRow
    /\ table[Last(processed').id].user_id # pushUser

\* C31: a push with a 'created' entry whose identifier exists under another
\* owner does not take over or modify that row: the owner-scoped existence
\* check finds nothing, the insert fails on the primary key, the push issues
\* ROLLBACK, answers ok:false, and the committed rows of both tables, the
\* other owner's and the pushing owner's, are what they were, with none of
\* the push's earlier writes.
C31_CreatedOnForeignIdFails ==
    [][(\/ CreatedOnForeignId("categories.created", categories)
        \/ CreatedOnForeignId("todos.created", todos)) =>
          /\ ~Last(processed').found
          /\ pushPc' = "done"
          /\ pushResult'.ok = FALSE
          /\ statements' = statements \o <<"ROLLBACK", "release">>
          /\ categories' = categories
          /\ todos' = todos
          /\ \A id \in CatIds :
                txCategories[id] # NoRow => categories'[id] # txCategories[id]
          /\ \A id \in TodoIds :
                txTodos[id] # NoRow => todos'[id] # txTodos[id]]_vars

\* A push inserted a category of its owner and then failed on a 'created'
\* todo whose identifier is another owner's row: that row is as it was and
\* the category is not stored.
C31_ForeignIdPushRolledBack ==
    /\ pushPc = "done"
    /\ ~pushResult.ok
    /\ Len(processed) = 2
    /\ Last(processed).loop = "todos.created"
    /\ ~Last(processed).found
    /\ todos["t1"] # NoRow
    /\ todos["t1"].user_id # pushUser
    /\ txCategories["c1"] # NoRow
    /\ categories["c1"] = NoRow

\* --------------------------------------------- clearing the soft-delete flag
\* The row changes from soft-deleted to live between the two versions.
Restored(before, after) ==
    /\ before # NoRow
    /\ before.is_deleted
    /\ after # NoRow
    /\ ~after.is_deleted

\* The step is an iteration of this 'created' loop on this identifier that
\* found the owner's row and in which the resolver chose the client.
CreatedWon(loop, id) ==
    /\ Len(processed') = Len(processed) + 1
    /\ Last(processed') = [loop |-> loop, id |-> id, found |-> TRUE]
    /\ Len(conflicts') = Len(conflicts) + 1
    /\ Last(conflicts').recordId = id
    /\ Last(conflicts').winner = "local"

\* C32: the soft-delete flag of a record goes from true to false only
\* through a pushed 'created' entry for its identifier that wins the
\* resolver: inside a transaction the flag is cleared only by such an
\* iteration; a committed row has its flag cleared only by the COMMIT of a
\* push that holds such a write; no 'updated' or 'deleted' entry and no
\* direct update or delete clears it.
C32_FlagClearedOnlyByWinningCreated ==
    [][/\ \A id \in CatIds :
            /\ (InTx /\ pushPc' # "done"
                    /\ Restored(ViewCategory(id), ViewCategory(id)')) =>
                  CreatedWon("categories.created", id)
            /\ Restored(categories[id], categories'[id]) =>
                  /\ PushCommit
                  /\ txCategories[id] = categories'[id]
                  /\ \E i \in 1..Len(processed) :
                        processed[i] = [loop |-> "categories.created",
                                        id |-> id, found |-> TRUE]
       /\ \A id \in TodoIds :
            /\ (InTx /\ pushPc' # "done"
                    /\ Restored(ViewTodo(id), ViewTodo(id)')) =>
                  CreatedWon("todos.created", id)
            /\ Restored(todos[id], todos'[id]) =>
                  /\ PushCommit
                  /\ txTodos[id] = todos'[id]
                  /\ \E i \in 1..Len(processed) :
                        processed[i] = [loop |-> "todos.created",
                                        id |-> id, found |-> TRUE]]_vars

\* A push whose 'created' category won against the owner's soft-deleted row
\* has committed: the row is live again.
C32_DeletedRowRestoredByCreated ==
    /\ pushPc = "done"
    /\ pushResult.ok
    /\ Len(processed) = 1
    /\ processed[1] = [loop |-> "categories.created", id |-> "c1",
                       found |-> TRUE]
    /\ conflicts[1].winner = "local"
    /\ pushBase.categories["c1"].is_deleted
    /\ ~categories["c1"].is_deleted

====
